---- MODULE Spec2Model ----
(***************************************************************************)
(* A model of runa-tic/ph-model, src/model/crypto_data.py.                 *)
(*                                                                         *)
(* SpecId    _get_coin_id and its lru_cache: the calls of one process, one *)
(*           step per call, per network request and per line of input.     *)
(*                                                                         *)
(* SpecMk    _coin_markets: one call, one step per upstream ticker entry.  *)
(*                                                                         *)
(* Spec      fetch_ohlcv: one call, one step per request that leaves the   *)
(*           process (venue constructor, load_markets, fetch_ohlcv,        *)
(*           fetch_trades, the aggregator's OHLC endpoint).  FairSpec adds *)
(*           that a possible step is taken; SpecSelected is the calls that *)
(*           select a venue.                                               *)
(*                                                                         *)
(* SpecSnip  save_surge_snippets and save_selloff_snippets: one call, one  *)
(*           step per candle of the series, in exact arithmetic.           *)
(*                                                                         *)
(* SpecPlan  save_buyback_model and save_liquidation_model: one call, one  *)
(*           step per row of the schedule, in rounded binary floating      *)
(*           point.                                                        *)
(*                                                                         *)
(* SpecDays  _coingecko_days: one call.                                    *)
(*                                                                         *)
(* Timestamps are milliseconds as in the source.  The trailing window      *)
(* DAYS_LIMIT (364 in the source) is scaled down so that every loop of the *)
(* engine can be unrolled with arbitrary venue answers; the clock is       *)
(* placed DAYS_LIMIT days and a few hours after the epoch so that the      *)
(* arithmetic stays inside TLC's integers.                                 *)
(***************************************************************************)
EXTENDS Integers, Sequences, FiniteSets, TLC

----------------------------------------------------------------------------
(* Bounds of the model *)

\* crypto_data.py:50 sets DAYS_LIMIT = 364; the model scales the window.
DAYS_LIMIT == 2

\* In a call that tries several venues, the non-empty batches (rows or
\* trades) the venues serve; once they are used up a venue answers with an
\* empty batch or an error.  A call that tries one venue is not limited.
MaxAnswers == 2

----------------------------------------------------------------------------
(* Program constants *)

MS_IN_DAY == 24 * 60 * 60 * 1000

None == "None"

\* The value of ret while the call has not returned
NoReturn == [results |-> <<>>, failures |-> <<>>]

\* The venues the exchange client library offers (ccxt.exchanges), in the
\* library's (alphabetical) order.  "uniswap" stands for a venue the
\* metadata service lists and the library does not offer.
CcxtExchanges == <<"binance", "kraken", "lbank">>

\* The last of the three bindings of the name is the one in force.
EXCHANGE_BLACKLIST == {"lbank", "phemex", "latoken"}

\* Every venue name of the model, in the order sorted() gives.
VenueNames == <<"binance", "kraken", "lbank", "uniswap">>

\* ticker.upper() + "/" + q for q in ("USDT", "USD", "USDC"), ticker "aaa"
generic_pairs == <<"AAA/USDT", "AAA/USD", "AAA/USDC">>

----------------------------------------------------------------------------
(* Sequences as Python lists *)

Range(s) == {s[i] : i \in DOMAIN s}

SetMin(S) == CHOOSE x \in S : \A y \in S : x <= y

SetMax(S) == CHOOSE x \in S : \A y \in S : x >= y

\* s[-n:] for n > 0
LastN(s, n) == IF Len(s) <= n THEN s ELSE SubSeq(s, Len(s) - n + 1, Len(s))

\* sorted(S) for a set of venue names
Sorted(S) == SelectSeq(VenueNames, LAMBDA n : n \in S)

----------------------------------------------------------------------------
(* fetch_ohlcv: the state of one call *)

VARIABLES
    markets,      \* the list _coin_markets(ticker) returned: <<venue, pair>>
    exchange,     \* the venue filter, None when absent
    warnings,     \* the warnings argument: None when absent, else "list"
    collected,    \* the list the diagnostics are appended to (l.268)
    results,      \* dict venue -> rows
    pc,           \* the next request of the call, or "returned" / "raised"
    phase,        \* 1: catalog pairs (l.371-376), 2: generic pairs (l.382-397)
    ex_i,         \* index of ex_name in exchanges_to_try
    sym_i,        \* index of symbol in the pair list being walked
    symbols,      \* the live symbol list of the venue being probed
    all_data,     \* the all_data list of the loop that is running
    since,        \* cursor of the paginated loop
    start,        \* cursor of _build_from_trades
    ret,          \* the tuple (results, failures) once returned, NoReturn before
    raised,       \* the exception that left fetch_ohlcv, None when none
    log,          \* history: the strategies of the running _fetch_from_exchange
                  \* that ended without rows, in order
    agg,          \* history: what the aggregator answered, None before
    answers,      \* history: the non-empty batches served so far, counted
                  \* in a call that tries several venues
    fetched,      \* history: the trades fetched by the running _build_from_trades
    requests,     \* history: the answers the running loop has received
    fed,          \* history: per venue, the trades its feed served for a
                  \* catalog pair when _build_from_trades ran to its end
    prov          \* history: per result key, the pair and the strategy that
                  \* gave the series, the strategies that failed before
                  \* it, the rows accumulated before the window cut and
                  \* the trades fetched

engineVars == <<exchange, warnings, collected, results, pc, phase, ex_i, sym_i,
                symbols, all_data, since, start, ret, raised, log, agg, answers,
                fetched, requests, fed, prov>>

\* The engine state but for pc and raised
engineRest == <<exchange, warnings, collected, results, phase, ex_i, sym_i, symbols,
                all_data, since, start, ret, log, agg, answers, fetched,
                requests, fed, prov>>

fetchVars == <<markets, engineVars>>

(* _get_coin_id and its cache: the state of a process *)

VARIABLES
    ticker,       \* the ticker argument, a string (sequence of characters)
    cache,        \* the lru_cache of _get_coin_id: ticker -> id
    idpc,         \* "idle", "request", "prompt", "done" or "raised"
    caller,       \* the function that called _get_coin_id
    listing,      \* <<body>> once /coins/list has answered the running call,
                  \* <<>> before
    coins,        \* the listed coins whose symbol matches the ticker
    choice,       \* the last line input() returned
    out,          \* the id returned, or the exception raised
    asked,        \* history: the lines input() returned in the running call
    reqs,         \* history: the network requests of the running call
    calls,        \* history: the calls made in the process
    canon,        \* history: ticker -> the id of its first successful call
    known         \* history: the tickers resolved before the running call

idVars == <<cache, idpc, caller, listing, coins, choice, out, asked, reqs,
            calls, canon, known>>

(* _coin_markets: the state of one call; its list is the variable markets *)

VARIABLES
    mkpc,         \* "request", "loop", "returned" or "raised"
    tickers,      \* data.get("tickers", []) of the response
    entry_i       \* the number of entries the for loop has handled

mkVars == <<mkpc, tickers, entry_i>>

(* fetch_coin_info: the state of one call *)

VARIABLES
    info,         \* "off", "request", "prompt", "returned" or "raised"
    info_out      \* the exception raised, "dict" when the call returned

infoVars == <<info, info_out>>

(* save_surge_snippets and save_selloff_snippets: the state of one call *)

VARIABLES
    fn,           \* the function that runs, None when none does
    ohlcv,        \* the series argument
    supply,       \* the circulating supply argument
    multiplier,   \* the threshold argument, a fraction
    day_i,        \* the number of candles the for loop has handled
    event_id,     \* the id of the next event
    averages,     \* the ph_percentage of the events so far
    written,      \* the rows written to the file, header first
    returned,     \* <<value>> once the function has returned, <<>> before
    events        \* history: the indices of the days that gave an event

snipVars == <<fn, ohlcv, supply, multiplier, day_i, event_id, averages,
              written, returned, events>>

\* The state of the functions that do not touch the network
\* save_buyback_model and save_liquidation_model, which share fn, supply and
\* written with the snippet functions
VARIABLES
    planpc,          \* "off", "start", "setup", "loop", "returned" or the
                     \* name of the exception that left the function
    price,           \* the arguments, as floats
    ph_percentage,
    final_price,
    q_pct,
    step_pct,
    tokens_to_sell,  \* the locals
    steps,
    tokens_step,
    step,
    price_mult,
    sold_cum,
    usd_cum

planVars == <<planpc, price, ph_percentage, final_price, q_pct, step_pct,
              tokens_to_sell, steps, tokens_step, step, price_mult, sold_cum,
              usd_cum>>

pureVars == <<snipVars, planVars>>

\* _coingecko_days
VARIABLES
    limit,        \* the limit argument, 0 when the function is not called
    day           \* the value returned, 0 before the return

daysVars == <<limit, day>>

laterVars == <<infoVars, pureVars, daysVars>>

\* No snippet function is running
SnipOff ==
    /\ fn = None
    /\ ohlcv = <<>>
    /\ supply = 0
    /\ multiplier = [n |-> 0, d |-> 1]
    /\ day_i = 0
    /\ event_id = 0
    /\ averages = <<>>
    /\ written = <<>>
    /\ returned = <<>>
    /\ events = <<>>

\* _coingecko_days is not called
DaysOff ==
    /\ limit = 0
    /\ day = 0

\* The float 0.0
FZero == [m |-> 0, e |-> 0]

\* No schedule function is running
PlanOff ==
    /\ planpc = "off"
    /\ price = FZero
    /\ ph_percentage = FZero
    /\ final_price = FZero
    /\ q_pct = FZero
    /\ step_pct = FZero
    /\ tokens_to_sell = FZero
    /\ steps = 0
    /\ tokens_step = FZero
    /\ step = 0
    /\ price_mult = FZero
    /\ sold_cum = FZero
    /\ usd_cum = FZero

\* No call of fetch_coin_info is running
InfoOff ==
    /\ info = "off"
    /\ info_out = None

\* No call of _get_coin_id is running or has run
IdOff ==
    /\ cache = <<>>
    /\ idpc = "idle"
    /\ caller = None
    /\ listing = <<>>
    /\ coins = <<>>
    /\ choice = <<>>
    /\ out = None
    /\ asked = 0
    /\ reqs = 0
    /\ calls = 0
    /\ canon = <<>>
    /\ known = {}

\* No call of _coin_markets is running
MkOff ==
    /\ mkpc = "off"
    /\ tickers = <<>>
    /\ entry_i = 0

\* fetch_ohlcv has queried no venue
EngineIdle ==
    /\ exchange = None
    /\ warnings = None
    /\ collected = <<>>
    /\ results = <<>>
    /\ phase = 1
    /\ ex_i = 0
    /\ sym_i = 0
    /\ symbols = {}
    /\ all_data = <<>>
    /\ since = 0
    /\ start = 0
    /\ ret = NoReturn
    /\ raised = None
    /\ log = <<>>
    /\ agg = None
    /\ answers = 0
    /\ fetched = <<>>
    /\ requests = 0
    /\ fed = <<>>
    /\ prov = <<>>

\* No call of fetch_ohlcv is running
EngineOff ==
    /\ pc = "off"
    /\ EngineIdle

\* int(datetime.now(tz=utc).timestamp() * 1000), l.287
now_ms == (DAYS_LIMIT + 1) * MS_IN_DAY + 5 * 60 * 60 * 1000

since_start == now_ms - DAYS_LIMIT * MS_IN_DAY

InCcxt(ex) == ex \in Range(CcxtExchanges)

supported_markets ==
    SelectSeq(markets, LAMBDA m : InCcxt(m[1]) /\ m[1] \notin EXCHANGE_BLACKLIST)

\* markets_by_exchange.get(ex, [])
markets_by_exchange(ex) ==
    LET mine == SelectSeq(supported_markets, LAMBDA m : m[1] = ex)
    IN  [i \in 1..Len(mine) |-> mine[i][2]]

unsupported ==
    Sorted({m[1] : m \in {x \in Range(markets) :
                             ~InCcxt(x[1]) \/ x[1] \in EXCHANGE_BLACKLIST}})

\* The venues to try when the filter is honoured for supported venues only
SupportedToTry ==
    LET listed == IF exchange # None /\ exchange \notin EXCHANGE_BLACKLIST
                  THEN <<exchange>>
                  ELSE Sorted({m[1] : m \in Range(supported_markets)})
    IN  IF listed = <<>> THEN CcxtExchanges ELSE listed

\* l.281-283
exchanges_to_try ==
    LET listed == IF exchange # None
                  THEN <<exchange>>
                  ELSE Sorted({m[1] : m \in Range(supported_markets)})
    IN  IF listed = <<>> THEN CcxtExchanges ELSE listed

ex_name == exchanges_to_try[ex_i]

symbol == IF phase = 1 THEN markets_by_exchange(ex_name)[sym_i]
          ELSE generic_pairs[sym_i]

\* What the caller holds of the diagnostics after the call: collected is the
\* caller's list when one was passed, a local list otherwise (l.268)
Observable == IF warnings = None THEN <<>> ELSE collected

failures(res) == SelectSeq(exchanges_to_try, LAMBDA ex : ex \notin DOMAIN res)

\* The venues may serve one more non-empty batch
MayAnswer == Len(exchanges_to_try) = 1 \/ answers < MaxAnswers

Answered == IF Len(exchanges_to_try) = 1 THEN answers ELSE answers + 1

----------------------------------------------------------------------------
(* What a venue may answer *)

\* A native row [ts, open, high, low, close, volume]
Row(ts) == <<ts, 1, 2, 3, 4, 5>>

NativeBatch(first, n) == [i \in 1..n |-> Row(first + (i - 1) * MS_IN_DAY)]

\* Non-empty answers to fetch_ohlcv(symbol, "1d", since, limit): a venue
\* that honours the cursor, and one that ignores it and serves its history
\* from the same first day again; one row, or one row more than the limit.
NativeBatches(cursor) ==
    {NativeBatch(f, n) : f \in {cursor, since_start}, n \in {1, DAYS_LIMIT + 1}}

Trade(ts, px, amount) == [timestamp |-> ts, price |-> px, amount |-> amount]

\* Non-empty answers to fetch_trades(symbol, since, limit=1000): one trade
\* at the cursor, two trades of one day, two trades a day apart.
TradeBatches(cursor) ==
    { <<Trade(cursor, 1, 1)>>,
      <<Trade(cursor, 1, 1), Trade(cursor + 1000, 2, 1)>>,
      <<Trade(cursor, 2, 3), Trade(cursor + MS_IN_DAY, 1, 1)>> }

\* Live symbol lists of a venue after load_markets()
SymbolLists == { {}, {"AAA/USDT", "AAA/USDC"} }

\* Answers of GET /coins/{id}/ohlc: rows [ts, open, high, low, close]
AggregatorRows(n) == [i \in 1..n |-> <<since_start + (i - 1) * MS_IN_DAY, 1, 2, 3, 4>>]

----------------------------------------------------------------------------
(* _trades_to_ohlcv, l.290-303 *)

\* int(math.floor(t["timestamp"] / duration) * duration)
BucketTs(t, duration) == (t.timestamp \div duration) * duration

\* One iteration of the for loop: buckets.setdefault, then the four updates
AddTrade(buckets, t, duration) ==
    LET ts    == BucketTs(t, duration)
        old   == IF ts \in DOMAIN buckets
                 THEN buckets[ts]
                 ELSE <<ts, t.price, t.price, t.price, t.price, 0>>
        candle == <<ts,
                    old[2],
                    IF t.price > old[3] THEN t.price ELSE old[3],
                    IF t.price < old[4] THEN t.price ELSE old[4],
                    t.price,
                    old[6] + t.amount>>
    IN  (ts :> candle) @@ buckets

RECURSIVE FoldTrades(_, _, _, _)
FoldTrades(trades, i, buckets, duration) ==
    IF i > Len(trades) THEN buckets
    ELSE FoldTrades(trades, i + 1, AddTrade(buckets, trades[i], duration), duration)

\* [buckets[k] for k in sorted(buckets)]
RECURSIVE SortedRows(_, _)
SortedRows(buckets, keys) ==
    IF keys = {} THEN <<>>
    ELSE LET k == SetMin(keys)
         IN  <<buckets[k]>> \o SortedRows(buckets, keys \ {k})

_trades_to_ohlcv(trades, duration) ==
    LET buckets == FoldTrades(trades, 1, <<>>, duration)
    IN  SortedRows(buckets, DOMAIN buckets)

----------------------------------------------------------------------------
(* fetch_ohlcv: the walk over venues and pairs, l.371-401 *)

Pos(p, ph, i, j) == [pc |-> p, phase |-> ph, ex_i |-> i, sym_i |-> j]

\* l.399-401: the venue loops are over
EndPos(res) ==
    IF DOMAIN res # {} THEN Pos("returned", 2, 0, 0) ELSE Pos("aggregator", 2, 0, 0)

\* l.382-385: the next venue from index i on that has no series yet
ProbePos(i, res) ==
    LET open == {k \in i..Len(exchanges_to_try) : exchanges_to_try[k] \notin DOMAIN res}
    IN  IF open # {} THEN Pos("probe_construct", 2, SetMin(open), 0) ELSE EndPos(res)

\* l.371-373: the next venue from index i on that has a catalog pair
CatalogPos(i, res) ==
    LET listed == {k \in i..Len(exchanges_to_try) :
                      markets_by_exchange(exchanges_to_try[k]) # <<>>}
    IN  IF listed # {} THEN Pos("construct", 1, SetMin(listed), 1) ELSE ProbePos(1, res)

\* l.391-394: the next generic pair from index j on that the venue lists
GenericPos(j, syms, res) ==
    LET live == {k \in j..Len(generic_pairs) : generic_pairs[k] \in syms}
    IN  IF live # {} THEN Pos("construct", 2, ex_i, SetMin(live))
        ELSE ProbePos(ex_i + 1, res)

\* l.374-376 and l.395-397: what follows _fetch_from_exchange returning data
AfterFetch(data, res) ==
    IF data # <<>>
    THEN IF phase = 1 THEN CatalogPos(ex_i + 1, res) ELSE ProbePos(ex_i + 1, res)
    ELSE IF phase = 1
         THEN IF sym_i < Len(markets_by_exchange(ex_name))
              THEN Pos("construct", 1, ex_i, sym_i + 1)
              ELSE CatalogPos(ex_i + 1, res)
         ELSE GenericPos(sym_i + 1, symbols, res)

Goto(pos, res) ==
    /\ pc' = pos.pc
    /\ phase' = pos.phase
    /\ ex_i' = pos.ex_i
    /\ sym_i' = pos.sym_i
    /\ ret' = IF pos.pc = "returned"
              THEN [results |-> res, failures |-> failures(res)]
              ELSE ret

\* The locals of _fetch_from_exchange and _build_from_trades; they are gone
\* when _fetch_from_exchange returns.
Locals(rows, cursor, tcursor, trs, n) ==
    /\ all_data' = rows
    /\ since' = cursor
    /\ start' = tcursor
    /\ fetched' = trs
    /\ requests' = n

Attempt(strategy, outcome) == [strategy |-> strategy, outcome |-> outcome]

\* _fetch_from_exchange returns data, which the named strategy produced:
\* results[ex_name] = data when it is not empty, and the walk goes on.  raw
\* (the rows accumulated before the window cut) and trades are recorded for
\* the history.
Deliver(data, strategy, raw, trades) ==
    LET res == IF data # <<>> THEN (ex_name :> data) @@ results ELSE results
    IN  /\ results' = res
        /\ prov' = IF data # <<>>
                   THEN (ex_name :> [strategy |-> strategy, symbol |-> symbol,
                                     phase |-> phase, before |-> log,
                                     raw |-> raw, trades |-> trades]) @@ prov
                   ELSE prov
        /\ fed' = IF strategy = "trades" /\ phase = 1 /\ trades # <<>>
                  THEN (ex_name :> trades) @@ fed
                  ELSE fed
        /\ log' = <<>>
        /\ Goto(AfterFetch(data, res), res)
        /\ Locals(<<>>, since_start, since_start, <<>>, 0)

----------------------------------------------------------------------------
(* fetch_ohlcv: the inputs of a call *)

\* Lists _coin_markets may return: no market, one venue with one or two
\* pairs, two venues, a blacklisted venue next to a supported one, and
\* venues the library does not offer.
Catalogs ==
    { <<>>,
      << <<"binance", "AAA/USDT">> >>,
      << <<"binance", "AAA/USDT">>, <<"binance", "AAA/DAI">> >>,
      << <<"kraken", "AAA/USD">>, <<"binance", "AAA/USDT">> >>,
      << <<"lbank", "AAA/USDT">>, <<"kraken", "AAA/USD">> >>,
      << <<"uniswap", "AAA/USDT">> >>,
      << <<"uniswap", "AAA/USDC">>, <<"binance", "AAA/USDT">> >> }

Filters == {None, "binance", "lbank", "uniswap"}

----------------------------------------------------------------------------
(* fetch_ohlcv: the steps *)

Init ==
    /\ ticker = <<"a", "a", "a">>
    /\ IdOff
    /\ MkOff
    /\ InfoOff
    /\ DaysOff
    /\ SnipOff
    /\ PlanOff
    /\ markets \in Catalogs
    /\ exchange \in Filters
    /\ warnings \in {None, "list"}
    /\ collected = <<>>
    /\ results = <<>>
    /\ pc = "prepare"
    /\ phase = 1
    /\ ex_i = 0
    /\ sym_i = 0
    /\ symbols = {}
    /\ all_data = <<>>
    /\ since = since_start
    /\ start = since_start
    /\ ret = NoReturn
    /\ raised = None
    /\ log = <<>>
    /\ agg = None
    /\ answers = 0
    /\ fetched = <<>>
    /\ requests = 0
    /\ fed = <<>>
    /\ prov = <<>>

\* l.261-285: the unsupported-venue warning and the list of venues to try
Prepare ==
    /\ pc = "prepare"
    /\ UNCHANGED <<warnings, ticker, idVars, mkVars, laterVars>>
    /\ collected' = IF unsupported # <<>>
                    THEN Append(collected, [kind |-> "unsupported", names |-> unsupported])
                    ELSE collected
    /\ Goto(CatalogPos(1, results), results)
    /\ UNCHANGED <<markets, exchange, results, symbols, all_data, since, start,
                   raised, log, agg, answers, fetched, requests, prov, fed>>

\* l.321: getattr(ccxt, ex_name)({"enableRateLimit": True}), outside any try
Construct ==
    /\ pc = "construct"
    /\ UNCHANGED <<warnings, ticker, idVars, mkVars, laterVars>>
    /\ \E ok \in BOOLEAN :
          IF ok
          THEN /\ pc' = "load_markets"
               /\ raised' = raised
          ELSE /\ pc' = "raised"
               /\ raised' = "VenueError"
    /\ UNCHANGED <<markets, exchange, collected, results, phase, ex_i, sym_i,
                   symbols, all_data, since, start, ret, log, agg, answers,
                   fetched, requests, prov, fed>>

\* l.327: load_markets() inside the outer try; an exception goes to l.344
LoadMarkets ==
    /\ pc = "load_markets"
    /\ UNCHANGED <<warnings, ticker, idVars, mkVars, laterVars>>
    /\ \E ok \in BOOLEAN :
          IF ok
          THEN /\ pc' = "paged"
               /\ log' = log
          ELSE /\ pc' = "nosince"
               /\ log' = Append(log, Attempt("paged", "raise"))
    /\ UNCHANGED <<markets, exchange, collected, results, phase, ex_i, sym_i,
                   symbols, all_data, since, start, ret, raised, agg, answers,
                   fetched, requests, prov, fed>>

\* l.335-337 and l.343: the window cut of the paginated loop
PagedResult(rows) == LastN(LastN(rows, DAYS_LIMIT), DAYS_LIMIT)

\* l.328-343 and l.363: one request of the paginated loop
FetchOhlcvPaged ==
    /\ pc = "paged"
    /\ UNCHANGED <<warnings, ticker, idVars, mkVars, laterVars>>
    /\ \/ \* the request raises: l.344, the rows gathered so far are dropped
          /\ pc' = "nosince"
          /\ log' = Append(log, Attempt("paged", "raise"))
          /\ Locals(<<>>, since_start, since_start, <<>>, 0)
          /\ UNCHANGED <<results, phase, ex_i, sym_i, ret, prov, fed, answers>>
       \/ \* an empty batch: break, l.339 returns the rows or l.363 returns []
          /\ Deliver(IF all_data # <<>> THEN LastN(all_data, DAYS_LIMIT) ELSE <<>>,
                     "paged", all_data, <<>>)
          /\ UNCHANGED answers
       \/ /\ MayAnswer
          /\ answers' = Answered
          /\ \E batch \in NativeBatches(since) :
                LET rows == all_data \o batch
                IN  IF Len(rows) >= DAYS_LIMIT
                    THEN Deliver(PagedResult(rows), "paged", rows, <<>>)
                    ELSE /\ Locals(rows, batch[Len(batch)][1] + MS_IN_DAY, start, fetched,
                                requests + 1)
                         /\ UNCHANGED <<results, pc, phase, ex_i, sym_i, ret, log, prov, fed>>
    /\ UNCHANGED <<markets, exchange, collected, symbols, raised, agg>>

\* l.354: batch[-DAYS_LIMIT:]
NoSinceResult(batch) == LastN(batch, DAYS_LIMIT)

\* ex.parse_timeframe("1d") * 1000, l.307
duration == MS_IN_DAY

\* l.346-356 and l.363: the request without a start cursor
FetchOhlcvNoSince ==
    /\ pc = "nosince"
    /\ UNCHANGED <<warnings, ticker, idVars, mkVars, laterVars>>
    /\ \/ \* the request raises: l.355, _build_from_trades starts (l.306-309)
          /\ pc' = "trades"
          /\ log' = Append(log, Attempt("nosince", "raise"))
          /\ Locals(<<>>, since_start, since_start, <<>>, 0)
          /\ UNCHANGED <<results, phase, ex_i, sym_i, ret, prov, fed, answers>>
       \/ \* an empty batch: l.350 is false, l.363 returns []
          /\ Deliver(<<>>, "nosince", <<>>, <<>>)
          /\ UNCHANGED answers
       \/ /\ MayAnswer
          /\ answers' = Answered
          /\ \E batch \in NativeBatches(since_start) :
                Deliver(NoSinceResult(batch), "nosince", batch, <<>>)
    /\ UNCHANGED <<markets, exchange, collected, symbols, raised, agg>>

\* A cursor that an empty answer leaves where it was
StuckCursor(cursor) == cursor

\* l.313: the cursor after an empty answer
EmptyAdvance(cursor) == cursor + duration

\* l.317: the cursor after a non-empty answer
TradesAdvance(trades) == trades[Len(trades)].timestamp + 1

\* l.310: the condition of the while loop
TradesGoOn(cursor, rows) == cursor < now_ms /\ Len(rows) < DAYS_LIMIT

\* All the rows, without the window cut
WholeRows(rows) == rows

\* l.318: all_data[-DAYS_LIMIT:]
TradesResult(rows) == LastN(rows, DAYS_LIMIT)

\* The loop test after an iteration left the cursor at c and all_data at rows
TradesLoop(c, rows, trs) ==
    IF TradesGoOn(c, rows)
    THEN /\ Locals(rows, since, c, trs, requests + 1)
         /\ UNCHANGED <<results, pc, phase, ex_i, sym_i, ret, log, prov, fed>>
    ELSE Deliver(TradesResult(rows), "trades", rows, trs)

\* l.310-318 and l.359-363: one request of _build_from_trades
FetchTrades ==
    /\ pc = "trades"
    /\ UNCHANGED <<warnings, ticker, idVars, mkVars, laterVars>>
    /\ \/ \* the request raises: l.359 records the warning, l.363 returns []
          /\ collected' = Append(collected,
                                 [kind |-> "failed", symbol |-> symbol, ex |-> ex_name])
          /\ Deliver(<<>>, "trades", <<>>, <<>>)
          /\ UNCHANGED answers
       \/ \* no trades: the cursor moves on by one candle
          /\ TradesLoop(EmptyAdvance(start), all_data, fetched)
          /\ UNCHANGED <<collected, answers>>
       \/ /\ MayAnswer
          /\ answers' = Answered
          /\ \E trades \in TradeBatches(start) :
                /\ TradesLoop(TradesAdvance(trades),
                              all_data \o _trades_to_ohlcv(trades, duration),
                              fetched \o trades)
                /\ UNCHANGED collected
    /\ UNCHANGED <<markets, exchange, symbols, raised, agg>>

\* l.385: getattr(ccxt, ex_name)({"enableRateLimit": True}), outside any try.
\* A name the library does not have makes getattr raise AttributeError.
ProbeConstruct ==
    /\ pc = "probe_construct"
    /\ UNCHANGED <<warnings, ticker, idVars, mkVars, laterVars>>
    /\ \E ok \in BOOLEAN :
          IF InCcxt(ex_name) /\ ok
          THEN /\ pc' = "probe_load"
               /\ raised' = raised
          ELSE /\ pc' = "raised"
               /\ raised' = IF InCcxt(ex_name) THEN "VenueError" ELSE "AttributeError"
    /\ UNCHANGED <<markets, exchange, collected, results, phase, ex_i, sym_i,
                   symbols, all_data, since, start, ret, log, agg, answers,
                   fetched, requests, prov, fed>>

\* l.386-393: load_markets() of the probed venue, then its symbol list
ProbeLoadMarkets ==
    /\ pc = "probe_load"
    /\ UNCHANGED <<warnings, ticker, idVars, mkVars, laterVars>>
    /\ \/ \* l.388-390: the venue is skipped
          /\ Goto(ProbePos(ex_i + 1, results), results)
          /\ symbols' = symbols
       \/ \E syms \in SymbolLists :
             /\ symbols' = syms
             /\ Goto(GenericPos(1, syms, results), results)
    /\ UNCHANGED <<markets, exchange, collected, results, all_data, since, start,
                   raised, log, agg, answers, fetched, requests, prov, fed>>

\* l.422-425: the window cut and the volume column of the aggregator's rows
AggregatorResult(data) ==
    LET cut == LastN(data, DAYS_LIMIT)
    IN  [i \in 1..Len(cut) |-> cut[i] \o <<0>>]

\* l.403-425: the aggregator's OHLC endpoint
Aggregator ==
    /\ pc = "aggregator"
    /\ UNCHANGED <<warnings, ticker, idVars, mkVars, laterVars>>
    /\ \/ \* raise_for_status raises HTTPError: l.413 raises ValueError
          /\ agg' = "http_error"
          /\ pc' = "raised"
          /\ raised' = "ValueError"
          /\ UNCHANGED <<ret, prov>>
       \/ \* requests.get raises ConnectionError or Timeout: not caught
          /\ agg' = "unreachable"
          /\ pc' = "raised"
          /\ raised' = "ConnectionError"
          /\ UNCHANGED <<ret, prov>>
       \/ \* l.419-420: an empty list
          /\ agg' = "empty"
          /\ pc' = "raised"
          /\ raised' = "ValueError"
          /\ UNCHANGED <<ret, prov>>
       \/ \E n \in 1..(DAYS_LIMIT + 1) :
             /\ agg' = "rows"
             /\ pc' = "returned"
             /\ raised' = raised
             /\ ret' = [results |-> ("coingecko" :> AggregatorResult(AggregatorRows(n))),
                        failures |-> failures(results)]
             /\ prov' = ("coingecko" :> [strategy |-> "aggregator", symbol |-> None,
                                         phase |-> 3, before |-> <<>>,
                                         raw |-> AggregatorRows(n),
                                         trades |-> <<>>]) @@ prov
    /\ UNCHANGED <<markets, exchange, collected, results, phase, ex_i, sym_i,
                   symbols, all_data, since, start, log, answers, fetched, requests,
                   fed>>

Next ==
    \/ Prepare
    \/ Construct
    \/ LoadMarkets
    \/ FetchOhlcvPaged
    \/ FetchOhlcvNoSince
    \/ FetchTrades
    \/ ProbeConstruct
    \/ ProbeLoadMarkets
    \/ Aggregator

vars == <<fetchVars, ticker, idVars, mkVars, laterVars>>

Spec == Init /\ [][Next]_vars

\* Every request returns or raises in finite time: a step that is possible
\* is eventually taken.
FairSpec == Spec /\ WF_vars(Next)

\* The calls that select a venue: fetch_ohlcv(ticker, exchange=...)
InitSelected == Init /\ exchange # None

SpecSelected == InitSelected /\ [][Next]_vars

----------------------------------------------------------------------------
(* Python strings as sequences of characters *)

LowerLetters == <<"a", "b", "c", "d", "e", "f", "g", "h", "i", "j", "k", "l", "m", "n",
                  "o", "p", "q", "r", "s", "t", "u", "v", "w", "x", "y", "z">>

UpperLetters == <<"A", "B", "C", "D", "E", "F", "G", "H", "I", "J", "K", "L", "M", "N",
                  "O", "P", "Q", "R", "S", "T", "U", "V", "W", "X", "Y", "Z">>

Digits == <<"0", "1", "2", "3", "4", "5", "6", "7", "8", "9">>

\* The place of ch in seq, 0 when it is not there
IndexIn(seq, ch) ==
    IF \E i \in DOMAIN seq : seq[i] = ch
    THEN CHOOSE i \in DOMAIN seq : seq[i] = ch
    ELSE 0

LowerChar(ch) ==
    LET i == IndexIn(UpperLetters, ch) IN IF i > 0 THEN LowerLetters[i] ELSE ch

UpperChar(ch) ==
    LET i == IndexIn(LowerLetters, ch) IN IF i > 0 THEN UpperLetters[i] ELSE ch

\* str.lower()
Lower(str) == [i \in 1..Len(str) |-> LowerChar(str[i])]

\* str.upper()
Upper(str) == [i \in 1..Len(str) |-> UpperChar(str[i])]

RECURSIVE LStrip(_)
LStrip(str) == IF str # <<>> /\ str[1] = " " THEN LStrip(Tail(str)) ELSE str

RECURSIVE RStrip(_)
RStrip(str) ==
    IF str # <<>> /\ str[Len(str)] = " "
    THEN RStrip(SubSeq(str, 1, Len(str) - 1))
    ELSE str

\* The blanks int() ignores at both ends of its argument
Strip(str) == RStrip(LStrip(str))

IsDigit(ch) == IndexIn(Digits, ch) > 0

RECURSIVE DigitsValue(_)
DigitsValue(str) ==
    IF str = <<>>
    THEN 0
    ELSE DigitsValue(SubSeq(str, 1, Len(str) - 1)) * 10
         + (IndexIn(Digits, str[Len(str)]) - 1)

\* int(choice) for a line of blanks, signs, digits and other characters:
\* blanks around, one optional sign, then digits only; anything else is a
\* ValueError (ok = FALSE).
ParseInt(str) ==
    LET t      == Strip(str)
        signed == t # <<>> /\ t[1] \in {"+", "-"}
        body   == IF signed THEN Tail(t) ELSE t
    IN  IF body # <<>> /\ \A i \in 1..Len(body) : IsDigit(body[i])
        THEN [ok |-> TRUE,
              val |-> IF signed /\ t[1] = "-" THEN 0 - DigitsValue(body)
                      ELSE DigitsValue(body)]
        ELSE [ok |-> FALSE, val |-> 0]

\* list[i] for a Python index i, negative indices counted from the end
PyIndex(list, i) == IF i >= 0 THEN list[i + 1] ELSE list[Len(list) + i + 1]

StartsWith(str, prefix) ==
    Len(str) >= Len(prefix) /\ SubSeq(str, 1, Len(prefix)) = prefix

\* str.replace(old, new): the occurrences of old, leftmost first, not
\* overlapping
RECURSIVE Replace(_, _, _)
Replace(str, old, new) ==
    IF str = <<>>
    THEN <<>>
    ELSE IF StartsWith(str, old)
         THEN new \o Replace(SubSeq(str, Len(old) + 1, Len(str)), old, new)
         ELSE <<str[1]>> \o Replace(Tail(str), old, new)

----------------------------------------------------------------------------
(* _get_coin_id: the inputs *)

\* The calls of a process
MaxCalls == 3

\* The lines that select nothing, per call
MaxPrompts == 2

\* The tickers a process looks up: two spellings of one symbol and another
IdTickers == {<<"b", "t">>, <<"B", "T">>, <<"x">>}

Coin(id, sym) == [id |-> id, symbol |-> sym]

\* Bodies of the /coins/list response: no coin, one coin, a second symbol,
\* two coins of one symbol with another between them, three of one symbol
Listings ==
    { <<>>,
      <<Coin("bitcoin", <<"b", "t">>)>>,
      <<Coin("bitcoin", <<"b", "t">>), Coin("xcoin", <<"x">>)>>,
      <<Coin("bitcoin", <<"b", "t">>), Coin("xcoin", <<"x">>), Coin("bt-peg", <<"B", "T">>)>>,
      <<Coin("bt-peg", <<"B", "T">>), Coin("bitcoin", <<"b", "t">>), Coin("bt-old", <<"B", "t">>)>> }

\* Lines input() may return
Lines ==
    { <<>>,
      <<"1">>,
      <<"2">>,
      <<"3">>,
      <<"0">>,
      <<" ", "2">>,
      <<"2", " ">>,
      <<"+", "1">>,
      <<"-", "1">>,
      <<"0", "2">>,
      <<"a">>,
      <<"1", "a">>,
      <<"2", ".">>,
      <<"1", "0">> }

\* The callers of _get_coin_id: l.184, l.212, l.405
Callers == {"fetch_coin_info", "_coin_markets", "fetch_ohlcv"}

----------------------------------------------------------------------------
(* _get_coin_id: the steps *)

InitId ==
    /\ ticker = <<>>
    /\ IdOff
    /\ MkOff
    /\ InfoOff
    /\ DaysOff
    /\ SnipOff
    /\ PlanOff
    /\ markets = <<>>
    /\ EngineOff

\* l.161: the coins whose symbol is the ticker, compared in lower case
Matching(body, t) == SelectSeq(body, LAMBDA c : Lower(c.symbol) = Lower(t))

\* lru_cache: the call is answered from the cache
Cached(t) == t \in DOMAIN cache

\* A cache that keeps nothing
NoStore(c, t, id) == c

\* lru_cache: the value a call returned is kept for its argument
Store(c, t, id) == (t :> id) @@ c

\* A range test that lets 0 pass
LooseIndex(idx, n) == 0 <= idx /\ idx <= n

\* l.175: 1 <= idx <= len(coins)
ValidIndex(idx, n) == 1 <= idx /\ idx <= n

\* return id: the cache keeps it (exceptions are not kept)
Return(id) ==
    /\ idpc' = "done"
    /\ out' = id
    /\ cache' = Store(cache, ticker, id)
    /\ canon' = IF ticker \in DOMAIN canon THEN canon ELSE (ticker :> id) @@ canon

Raise(exc) ==
    /\ idpc' = "raised"
    /\ out' = exc
    /\ UNCHANGED <<cache, canon>>

\* _get_coin_id(t) is called: l.148, the cache answers or the body runs
IdCall ==
    /\ idpc \in {"idle", "done", "raised"}
    /\ calls < MaxCalls
    /\ \E t \in IdTickers, f \in Callers :
          /\ ticker' = t
          /\ caller' = f
          /\ IF Cached(t)
             THEN /\ idpc' = "done"
                  /\ out' = cache[t]
             ELSE /\ idpc' = "request"
                  /\ out' = None
    /\ known' = DOMAIN canon
    /\ calls' = calls + 1
    /\ listing' = <<>>
    /\ coins' = <<>>
    /\ choice' = <<>>
    /\ asked' = 0
    /\ reqs' = 0
    /\ UNCHANGED <<cache, canon>>
    /\ UNCHANGED <<fetchVars, mkVars, laterVars>>

\* l.156-170: GET /coins/list and the filter
IdRequest ==
    /\ idpc = "request"
    /\ reqs' = reqs + 1
    /\ \/ \* l.159-160: HTTPError becomes ValueError
          /\ Raise("ValueError: request failed")
          /\ UNCHANGED <<listing, coins>>
       \/ \* ConnectionError or Timeout: not caught
          /\ Raise("ConnectionError")
          /\ UNCHANGED <<listing, coins>>
       \/ \E body \in Listings :
             LET found == Matching(body, ticker)
             IN  /\ listing' = <<body>>
                 /\ coins' = found
                 /\ IF found = <<>>
                    THEN Raise("ValueError: not found")
                    ELSE IF Len(found) = 1
                         THEN Return(found[1].id)
                         ELSE /\ idpc' = "prompt"
                              /\ UNCHANGED <<out, cache, canon>>
    /\ UNCHANGED <<ticker, caller, choice, asked, calls, known>>
    /\ UNCHANGED <<fetchVars, mkVars, laterVars>>

\* l.171-179: one round of the while True loop
IdPrompt ==
    /\ idpc = "prompt"
    /\ \/ \* input() raises EOFError: the input has ended
          /\ Raise("EOFError")
          /\ UNCHANGED <<choice, asked>>
       \/ \E line \in Lines :
             LET idx == ParseInt(line)
             IN  /\ choice' = line
                 /\ asked' = asked + 1
                 /\ IF idx.ok /\ ValidIndex(idx.val, Len(coins))
                    THEN Return(PyIndex(coins, idx.val - 1).id)
                    ELSE /\ asked < MaxPrompts
                         /\ idpc' = "prompt"
                         /\ UNCHANGED <<out, cache, canon>>
    /\ UNCHANGED <<ticker, caller, listing, coins, reqs, calls, known>>
    /\ UNCHANGED <<fetchVars, mkVars, laterVars>>

NextId ==
    \/ IdCall
    \/ IdRequest
    \/ IdPrompt

SpecId == InitId /\ [][NextId]_vars

----------------------------------------------------------------------------
(* _coin_markets: the inputs *)

\* The ticker entries of a response
MaxEntries == 2

\* l.113-124
ALLOWED_QUOTES ==
    { <<"U", "S", "D">>,
      <<"U", "S", "D", "T">>,
      <<"U", "S", "D", "C">>,
      <<"B", "U", "S", "D">>,
      <<"D", "A", "I">>,
      <<"T", "U", "S", "D">>,
      <<"U", "S", "D", "D">>,
      <<"U", "S", "D", "P">>,
      <<"P", "A", "X">>,
      <<"G", "U", "S", "D">> }

\* l.72-83: <<identifier, ccxt id>>
EXCHANGE_ALIASES ==
    { <<<<"m", "x", "c">>, <<"m", "e", "x", "c">>>>,
      <<<<"g", "a", "t", "e", "-", "i", "o">>, <<"g", "a", "t", "e">>>>,
      <<<<"g", "a", "t", "e", "i", "o">>, <<"g", "a", "t", "e">>>>,
      <<<<"b", "y", "b", "i", "t", "_", "s", "p", "o", "t">>, <<"b", "y", "b", "i", "t">>>>,
      <<<<"b", "y", "b", "i", "t", "-", "s", "p", "o", "t">>, <<"b", "y", "b", "i", "t">>>>,
      <<<<"o", "k", "e", "x">>, <<"o", "k", "x">>>>,
      <<<<"c", "r", "y", "p", "t", "o", "_", "c", "o", "m">>, <<"c", "r", "y", "p", "t", "o", "c", "o", "m">>>>,
      <<<<"h", "a", "s", "h", "k", "e", "y", "_", "e", "x", "c", "h", "a", "n", "g", "e">>, <<"h", "a", "s", "h", "k", "e", "y">>>>,
      <<<<"h", "u", "o", "b", "i">>, <<"h", "u", "o", "b", "i">>>>,
      <<<<"p", "2", "p", "b", "2", "b">>, <<"p", "2", "b">>>> }

MkTickers == {<<"x", "b", "t">>, <<"a", "b">>, <<"A", "b">>}

Entry(id, base, target) == [identifier |-> id, base |-> base, target |-> target]

\* Ticker entries of /coins/{id}/tickers: Kraken's XBT spelling, mixed case,
\* aliased venues, a non-dollar fiat quote, a cross pair, another base.
Entries ==
    { Entry(<<"k", "r", "a", "k", "e", "n">>, <<"X", "B", "T">>, <<"U", "S", "D">>),
      Entry(<<"K", "r", "a", "k", "e", "n">>, <<"x", "b", "t">>, <<"u", "s", "d", "t">>),
      Entry(<<"b", "i", "n", "a", "n", "c", "e">>, <<"X", "B", "T">>, <<"U", "S", "D", "T">>),
      Entry(<<"G", "a", "t", "e", "-", "I", "O">>, <<"A", "B">>, <<"U", "S", "D", "C">>),
      Entry(<<"b", "i", "n", "a", "n", "c", "e">>, <<"A", "B">>, <<"J", "P", "Y">>),
      Entry(<<"k", "r", "a", "k", "e", "n">>, <<"A", "B">>, <<"B", "T", "C">>),
      Entry(<<"b", "i", "n", "a", "n", "c", "e">>, <<"Z", "Z">>, <<"U", "S", "D", "T">>),
      Entry(<<"k", "r", "a", "k", "e", "n">>, <<"a", "b">>, <<"D", "A", "I">>),
      Entry(<<"H", "u", "o", "b", "i">>, <<"A", "B">>, <<"U", "S", "D", "T">>),
      Entry(<<"o", "k", "e", "x">>, <<"A", "B">>, <<"U", "S", "D">>) }

RECURSIVE SeqsUpTo(_, _)
SeqsUpTo(S, n) ==
    IF n = 0
    THEN {<<>>}
    ELSE LET shorter == SeqsUpTo(S, n - 1)
         IN  shorter \cup {Append(q, e) : q \in shorter, e \in S}

----------------------------------------------------------------------------
(* _coin_markets, called by fetch_ohlcv at l.258, and fetch_coin_info: the *)
(* steps after _get_coin_id(ticker) returned at l.212 and at l.184        *)

InitMk ==
    /\ DaysOff
    /\ ticker \in MkTickers
    /\ mkpc = "request"
    /\ tickers = <<>>
    /\ entry_i = 0
    /\ markets = <<>>
    /\ info = "request"
    /\ info_out = None
    /\ SnipOff
    /\ PlanOff
    /\ IdOff
    /\ pc = "catalog"
    /\ EngineIdle

\* l.131-134
_normalize_exchange_id(exchange_id) ==
    LET low == Lower(exchange_id)
    IN  IF \E a \in EXCHANGE_ALIASES : a[1] = low
        THEN (CHOOSE a \in EXCHANGE_ALIASES : a[1] = low)[2]
        ELSE low

\* A pair that is left as it is spelled
SamePair(exchange_id, pair) == pair

\* l.137-142
_normalize_pair(exchange_id, pair) ==
    IF exchange_id = <<"k", "r", "a", "k", "e", "n">>
    THEN Replace(pair, <<"X", "B", "T">>, <<"B", "T", "C">>)
    ELSE pair

\* l.213-223: GET /coins/{id}/tickers; an exception leaves _coin_markets and,
\* l.258 being outside any try, fetch_ohlcv
MkRequest ==
    /\ mkpc = "request"
    /\ \/ \* l.218-221: HTTPError becomes ValueError
          /\ mkpc' = "raised"
          /\ pc' = "raised"
          /\ raised' = "ValueError"
          /\ tickers' = tickers
       \/ \* requests.get raises ConnectionError or Timeout: not caught
          /\ mkpc' = "raised"
          /\ pc' = "raised"
          /\ raised' = "ConnectionError"
          /\ tickers' = tickers
       \/ \E feed \in SeqsUpTo(Entries, MaxEntries) :
             /\ tickers' = feed
             /\ mkpc' = "loop"
             /\ UNCHANGED <<pc, raised>>
    /\ UNCHANGED <<markets, entry_i, ticker, idVars, engineRest, laterVars>>

\* l.225-235: one entry of the for loop, or the return after the last
MkEntry ==
    /\ mkpc = "loop"
    /\ IF entry_i < Len(tickers)
       THEN LET entry      == tickers[entry_i + 1]
                base_upper == Upper(ticker)
                base       == Upper(entry.base)
                quote      == Upper(entry.target)
                exchange_id == _normalize_exchange_id(entry.identifier)
                pair       == _normalize_pair(exchange_id, base \o <<"/">> \o quote)
            IN  /\ markets' = IF base # base_upper \/ quote \notin ALLOWED_QUOTES
                              THEN markets
                              ELSE Append(markets, <<exchange_id, pair>>)
                /\ entry_i' = entry_i + 1
                /\ mkpc' = mkpc
                /\ pc' = pc
       ELSE /\ mkpc' = "returned"
            /\ pc' = "prepare"
            /\ UNCHANGED <<markets, entry_i>>
    /\ UNCHANGED <<tickers, ticker, idVars, raised, engineRest, laterVars>>

\* float(user_input) for a line of blanks, signs, digits, points and other
\* characters: blanks around, one optional sign, digits with at most one
\* point and one digit at least; positive tells whether the value is > 0.
ParseFloat(str) ==
    LET t      == Strip(str)
        signed == t # <<>> /\ t[1] \in {"+", "-"}
        body   == IF signed THEN Tail(t) ELSE t
        points == {i \in 1..Len(body) : body[i] = "."}
        digits == {i \in 1..Len(body) : IsDigit(body[i])}
    IN  [ok |-> /\ digits # {}
                /\ Cardinality(points) <= 1
                /\ points \cup digits = 1..Len(body),
         positive |-> /\ ~(signed /\ t[1] = "-")
                      /\ \E i \in digits : body[i] # "0"]

\* l.186-197: GET /coins/{id} and the supply of the response
InfoRequest ==
    /\ info = "request"
    /\ \/ \* l.189-192: HTTPError becomes ValueError
          /\ info' = "raised"
          /\ info_out' = "ValueError"
       \/ \* requests.get raises ConnectionError or Timeout: not caught
          /\ info' = "raised"
          /\ info_out' = "ConnectionError"
       \/ \* the response holds a circulating supply
          /\ info' = "returned"
          /\ info_out' = "dict"
       \/ \* l.196: no supply, the user is asked for it
          /\ info' = "prompt"
          /\ info_out' = info_out
    /\ UNCHANGED <<fetchVars, ticker, idVars, mkVars, pureVars, daysVars>>

\* l.198-206: one round of the supply prompt
InfoPrompt ==
    /\ info = "prompt"
    /\ \/ \* input() raises EOFError: the input has ended
          /\ info' = "raised"
          /\ info_out' = "EOFError"
       \/ \E line \in Lines :
             LET entered == ParseFloat(line)
             IN  IF entered.ok /\ entered.positive
                 THEN /\ info' = "returned"
                      /\ info_out' = "dict"
                 ELSE UNCHANGED <<info, info_out>>
    /\ UNCHANGED <<fetchVars, ticker, idVars, mkVars, pureVars, daysVars>>

NextMk ==
    \/ MkRequest
    \/ MkEntry
    \/ InfoRequest
    \/ InfoPrompt

SpecMk == InitMk /\ [][NextMk]_vars

----------------------------------------------------------------------------
(* Python floats as fractions in lowest terms *)

RECURSIVE GCD(_, _)
GCD(a, b) == IF b = 0 THEN a ELSE GCD(b, a % b)

Abs(a) == IF a < 0 THEN 0 - a ELSE a

\* n / d in lowest terms with a positive denominator
Frac(n, d) ==
    LET g   == GCD(Abs(n), Abs(d))
        sgn == IF d < 0 THEN 0 - 1 ELSE 1
    IN  [n |-> sgn * ((sgn * sgn * n) \div g), d |-> sgn * (d \div g)]

FromInt(k) == [n |-> k, d |-> 1]

RAdd(a, b) == Frac(a.n * b.d + b.n * a.d, a.d * b.d)

RSub(a, b) == Frac(a.n * b.d - b.n * a.d, a.d * b.d)

RMul(a, b) == Frac(a.n * b.n, a.d * b.d)

RDiv(a, b) == Frac(a.n * b.d, a.d * b.n)

RGe(a, b) == a.n * b.d >= b.n * a.d

RLe(a, b) == a.n * b.d <= b.n * a.d

\* sum(list) for a list of fractions
RECURSIVE RSum(_)
RSum(list) == IF list = <<>> THEN FromInt(0) ELSE RAdd(list[1], RSum(Tail(list)))

\* sum(list) / len(list) if list else 0.0
Mean(list) ==
    IF list # <<>> THEN RDiv(RSum(list), FromInt(Len(list))) ELSE FromInt(0)

Max(a, b) == IF a >= b THEN a ELSE b

Min(a, b) == IF a <= b THEN a ELSE b

\* datetime.utcfromtimestamp(ts / 1000).strftime("%d-%m-%Y") for ts >= 0:
\* <<day, month, year>> of the proleptic Gregorian calendar
Date(ts) ==
    LET z   == ts \div MS_IN_DAY + 719468
        era == z \div 146097
        doe == z - era * 146097
        yoe == (doe - doe \div 1460 + doe \div 36524 - doe \div 146096) \div 365
        doy == doe - (365 * yoe + yoe \div 4 - yoe \div 100)
        mp  == (5 * doy + 2) \div 153
        d   == doy - (153 * mp + 2) \div 5 + 1
        m   == IF mp < 10 THEN mp + 3 ELSE mp - 9
        y   == yoe + era * 400 + (IF m <= 2 THEN 1 ELSE 0)
    IN  <<d, m, y>>

----------------------------------------------------------------------------
(* save_surge_snippets and save_selloff_snippets: the inputs *)

\* The candles of a series
MaxDays == 5

\* <<open, high, low, close, volume>>: a day whose high is 1.75 times and
\* whose low is 0.75 times the open, a day whose low is half the open, a day
\* that opens at 0, and a day with a negative open whose ratios would qualify
Candles ==
    { <<4, 7, 3, 6, 40>>,
      <<4, 4, 2, 2, 25>>,
      <<0, 9, 0, 1, 7>>,
      <<0 - 4, 0 - 8, 0 - 1, 0 - 2, 9>> }

\* Daily series: the candle at place i has the timestamp of day i
SeriesOf(q) == [i \in 1..Len(q) |-> <<(i - 1) * MS_IN_DAY>> \o q[i]]

\* The thresholds tried: the defaults 1.75 and 0.5, and a looser one each
SurgeMultipliers == {[n |-> 7, d |-> 4], [n |-> 3, d |-> 2]}

SelloffMultipliers == {[n |-> 1, d |-> 2], [n |-> 3, d |-> 4]}

\* A supply, and the supply 0 that l.497 and l.572 test for
Supplies == {3, 0}

SnippetHeader ==
    <<"event_id", "date", "open", "high", "low", "close", "volume",
      "is_event_day", "ph_volume", "ph_percentage">>

----------------------------------------------------------------------------
(* save_surge_snippets and save_selloff_snippets: the steps *)

InitSnip ==
    /\ fn \in {"save_surge_snippets", "save_selloff_snippets"}
    /\ ohlcv \in {SeriesOf(q) : q \in SeqsUpTo(Candles, MaxDays)}
    /\ supply \in Supplies
    /\ multiplier \in IF fn = "save_surge_snippets"
                      THEN SurgeMultipliers ELSE SelloffMultipliers
    /\ day_i = 0
    /\ event_id = 1
    /\ averages = <<>>
    /\ written = <<SnippetHeader>>
    /\ returned = <<>>
    /\ events = <<>>
    /\ PlanOff
    /\ ticker = <<>>
    /\ IdOff
    /\ MkOff
    /\ InfoOff
    /\ DaysOff
    /\ markets = <<>>
    /\ EngineOff

\* A test that leaves the boundary out
StrictSurge(row, mult) ==
    row[2] > 0 /\ ~RLe(RDiv(FromInt(row[3]), FromInt(row[2])), mult)

\* l.486: open_ > 0 and (high / open_) >= multiplier
IsSurge(row, mult) ==
    row[2] > 0 /\ RGe(RDiv(FromInt(row[3]), FromInt(row[2])), mult)

\* l.559: open_ > 0 and (low / open_) <= multiplier
IsSelloff(row, mult) ==
    row[2] > 0 /\ RLe(RDiv(FromInt(row[4]), FromInt(row[2])), mult)

\* l.487, l.560: start = max(0, i - 2)
WindowStart(i) == Max(0, i - 2)

\* A window that ends one day early
ShortEnd(n, i) == Min(n, i + 2)

\* l.488, l.561: end = min(len(ohlcv), i + 3)
WindowEnd(n, i) == Min(n, i + 3)

\* l.490-494, l.563-567: the volumes of the days around day i
Surrounding(list, i) ==
    LET offsets == <<0 - 2, 0 - 1, 1, 2>>
        inside  == SelectSeq(offsets, LAMBDA o : 0 <= i + o /\ i + o < Len(list))
    IN  [k \in 1..Len(inside) |-> FromInt(list[i + inside[k] + 1][6])]

\* A mean that counts the event day with its neighbours
MeanWithDay(list, i) == Mean(Append(Surrounding(list, i), FromInt(list[i + 1][6])))

\* l.495, l.568-570
AvgSurrounding(list, i) == Mean(Surrounding(list, i))

\* l.496, l.571
PhVolume(list, i) == RSub(FromInt(list[i + 1][6]), AvgSurrounding(list, i))

\* l.497, l.572: ph_volume / supply if supply else 0.0
PhPercentage(phv, sup) == IF sup # 0 THEN RDiv(phv, FromInt(sup)) ELSE FromInt(0)

\* l.499-514, l.574-591: the rows of the window of the event at day i
WindowRows(list, i, id, phv, php) ==
    LET first == WindowStart(i)
        last  == WindowEnd(Len(list), i)
    IN  [k \in 1..(last - first) |->
            LET j   == first + k - 1
                row == list[j + 1]
            IN  <<id, Date(row[1]), row[2], row[3], row[4], row[5], row[6],
                  IF j = i THEN 1 ELSE 0, phv, php>>]

\* An event id that stays
SameId(id) == id

\* l.516, l.593
NextEventId(id) == id + 1

\* l.487-516, l.560-593: the event of day i
Event(i) ==
    LET phv == PhVolume(ohlcv, i)
        php == PhPercentage(phv, supply)
    IN  /\ averages' = Append(averages, php)
        /\ written' = written \o WindowRows(ohlcv, i, event_id, phv, php) \o << <<>> >>
        /\ event_id' = NextEventId(event_id)
        /\ events' = Append(events, i)

\* l.485-516: one candle of the for loop of save_surge_snippets
SurgeDay ==
    /\ fn = "save_surge_snippets"
    /\ returned = <<>>
    /\ day_i < Len(ohlcv)
    /\ IF IsSurge(ohlcv[day_i + 1], multiplier)
       THEN Event(day_i)
       ELSE UNCHANGED <<averages, written, event_id, events>>
    /\ day_i' = day_i + 1
    /\ UNCHANGED <<fn, ohlcv, supply, multiplier, returned>>
    /\ UNCHANGED <<fetchVars, ticker, idVars, mkVars, infoVars, planVars, daysVars>>

\* l.558-593: one candle of the for loop of save_selloff_snippets
SelloffDay ==
    /\ fn = "save_selloff_snippets"
    /\ returned = <<>>
    /\ day_i < Len(ohlcv)
    /\ IF IsSelloff(ohlcv[day_i + 1], multiplier)
       THEN Event(day_i)
       ELSE UNCHANGED <<averages, written, event_id, events>>
    /\ day_i' = day_i + 1
    /\ UNCHANGED <<fn, ohlcv, supply, multiplier, returned>>
    /\ UNCHANGED <<fetchVars, ticker, idVars, mkVars, infoVars, planVars, daysVars>>

\* l.518, l.595: return sum(averages) / len(averages) if averages else 0.0
SnipReturn ==
    /\ fn # None
    /\ returned = <<>>
    /\ day_i = Len(ohlcv)
    /\ returned' = <<Mean(averages)>>
    /\ UNCHANGED <<fn, ohlcv, supply, multiplier, day_i, event_id, averages,
                   written, events>>
    /\ UNCHANGED <<fetchVars, ticker, idVars, mkVars, infoVars, planVars, daysVars>>

NextSnip ==
    \/ SurgeDay
    \/ SelloffDay
    \/ SnipReturn

SpecSnip == InitSnip /\ [][NextSnip]_vars

----------------------------------------------------------------------------
(* Python floats with rounding: binary floating point, round to nearest,   *)
(* ties to even, with a significand of Precision bits (the 11 of IEEE      *)
(* binary16 in place of the 53 of binary64) and an unbounded exponent. A   *)
(* float is [m, e] of value m * 2^e, with 2^(Precision-1) <= |m| <         *)
(* 2^Precision, or FZero.                                                  *)

Precision == 11

RECURSIVE Pow2(_)
Pow2(k) == IF k = 0 THEN 1 ELSE 2 * Pow2(k - 1)

\* The number of binary digits of n >= 0
RECURSIVE Bits(_)
Bits(n) == IF n = 0 THEN 0 ELSE 1 + Bits(n \div 2)

\* The float nearest to n * 2^e
FRound(n, e) ==
    IF n = 0 THEN FZero
    ELSE LET a  == Abs(n)
             sg == IF n < 0 THEN 0 - 1 ELSE 1
             b  == Bits(a)
         IN  IF b <= Precision
             THEN [m |-> sg * a * Pow2(Precision - b), e |-> e - (Precision - b)]
             ELSE LET k    == b - Precision
                      q    == a \div Pow2(k)
                      r    == a % Pow2(k)
                      half == Pow2(k - 1)
                      up   == r > half \/ (r = half /\ q % 2 = 1)
                      q2   == IF up THEN q + 1 ELSE q
                  IN  IF q2 = Pow2(Precision)
                      THEN [m |-> sg * Pow2(Precision - 1), e |-> e + k + 1]
                      ELSE [m |-> sg * q2, e |-> e + k]

\* float(k) for an integer k
Fl(k) == FRound(k, 0)

FNeg(a) == [m |-> 0 - a.m, e |-> a.e]

\* a * b
FMul(a, b) == FRound(a.m * b.m, a.e + b.e)

\* a / b for b # 0: the quotient to Precision + 2 bits and a sticky bit
FDiv(a, b) ==
    IF a.m = 0 THEN FZero
    ELSE LET n  == Abs(a.m) * Pow2(Precision + 2)
             d  == Abs(b.m)
             sg == IF (a.m < 0) = (b.m < 0) THEN 1 ELSE 0 - 1
         IN  FRound(sg * (2 * (n \div d) + (IF n % d # 0 THEN 1 ELSE 0)),
                    a.e - b.e - Precision - 3)

\* a + b
FAdd(a, b) ==
    IF a.m = 0 THEN b
    ELSE IF b.m = 0 THEN a
    ELSE LET hi  == IF a.e >= b.e THEN a ELSE b
             lo  == IF a.e >= b.e THEN b ELSE a
             gap == hi.e - lo.e
         IN  IF gap > Precision + 2 THEN hi
             ELSE FRound(hi.m * Pow2(gap) + lo.m, lo.e)

\* a - b
FSub(a, b) == FAdd(a, FNeg(b))

\* a <= b, a >= b
FLe(a, b) == FSub(a, b).m <= 0

FGe(a, b) == FSub(a, b).m >= 0

\* math.ceil(a)
FCeil(a) ==
    IF a.e >= 0 THEN a.m * Pow2(a.e)
    ELSE IF 0 - a.e > Precision THEN (IF a.m > 0 THEN 1 ELSE 0)
    ELSE 0 - ((0 - a.m) \div Pow2(0 - a.e))

\* a ** n for an integer n >= 0, by squaring; exact, as pow is, when the
\* power is a float
RECURSIVE FPow(_, _)
FPow(a, n) ==
    IF n = 0 THEN Fl(1)
    ELSE LET half == FPow(a, n \div 2)
             sq   == FMul(half, half)
         IN  IF n % 2 = 1 THEN FMul(sq, a) ELSE sq

\* a ** n raises ZeroDivisionError
PowFails(a, n) == a.m = 0 /\ n < 0

\* a ** n for an integer n
FPower(a, n) == IF n >= 0 THEN FPow(a, n) ELSE FDiv(Fl(1), FPow(a, 0 - n))

\* The integer nearest to the quotient n / d of integers, d > 0, ties to even
RInt(n, d) ==
    LET q == n \div d
        r == n % d
    IN  IF 2 * r > d \/ (2 * r = d /\ q % 2 = 1) THEN q + 1 ELSE q

\* round(a, 2): the float nearest to the value of a rounded to 2 decimals
Round2(a) ==
    LET k == IF a.e >= 0 THEN a.m * 100 * Pow2(a.e)
             ELSE IF 0 - a.e > 2 * Precision THEN 0
             ELSE RInt(a.m * 100, Pow2(0 - a.e))
    IN  FDiv(Fl(k), Fl(100))

\* The float of the decimal literal n / d
Dec(n, d) == FDiv(Fl(n), Fl(d))

----------------------------------------------------------------------------
(* save_buyback_model and save_liquidation_model *)

\* The floats next to a > 0
Above(a) ==
    IF a.m = Pow2(Precision) - 1
    THEN [m |-> Pow2(Precision - 1), e |-> a.e + 1]
    ELSE [m |-> a.m + 1, e |-> a.e]

Below(a) ==
    IF a.m = Pow2(Precision - 1)
    THEN [m |-> Pow2(Precision) - 1, e |-> a.e - 1]
    ELSE [m |-> a.m - 1, e |-> a.e]

\* The arguments tried: prices, a supply, an average ph_percentage that is
\* positive, zero or negative, target prices on either side of the prices,
\* on and off the grid of the price steps and next to a price, a constant,
\* doubling or halving sell rate, and price steps of 5, 10, 20, 25 and 0
\* percent and of 1/256 percent, a step that is positive and less than half
\* the distance between the multiplier 1.0 and the floats next to it.  The
\* number of steps to a target grows as the step shrinks: the smallest step
\* is tried with the targets within 1/16 of the price.
Prices == {Fl(1), Dec(37, 10)}

PlanSupplies == {Fl(1000)}

PhPercentages == {Dec(1, 10), FZero, Dec(0 - 1, 10)}

FinalPrices ==
    {Dec(k, 20) : k \in 10..30}
        \cup {Dec(407, 100), Dec(703, 200), Dec(444, 100), Dec(333, 100)}
        \cup {FMul(Dec(37, 10), Dec(k, 20)) : k \in 17..25}
        \cup {Above(a) : a \in Prices} \cup {Below(a) : a \in Prices}

QPcts == {FZero, Fl(100), Fl(0 - 50)}

SmallestStep == Dec(1, 256)

StepPcts == {Fl(5), Fl(10), Fl(20), Fl(25), FZero, SmallestStep}

\* The target a lies within 1/16 of the price b
WithinReach(a, b) ==
    LET r == FSub(FDiv(a, b), Fl(1))
    IN  FLe([m |-> Abs(r.m), e |-> r.e], Dec(1, 16))

\* The steps of the while loop that are followed; a loop that has not ended
\* by then is left where it is
MaxSteps == 80

BuybackHeader ==
    <<"step", "x", "price_usd", "tokens_sold", "tokens_sold_cumulative",
      "usd_value", "usd_value_cumulative", "weighted_avg_price", "freefloat",
      "buy_in_tokens">>

LiquidationHeader ==
    <<"step", "x", "price_usd", "tokens_sold", "tokens_sold_cumulative",
      "usd_value", "usd_value_cumulative", "weighted_avg_price", "freefloat",
      "sell_out_tokens">>

InitPlan ==
    /\ fn \in {"save_buyback_model", "save_liquidation_model"}
    /\ price \in Prices
    /\ supply \in PlanSupplies
    /\ ph_percentage \in PhPercentages
    /\ final_price \in FinalPrices
    /\ q_pct \in QPcts
    /\ step_pct \in StepPcts
    /\ step_pct = SmallestStep => WithinReach(final_price, price)
    /\ planpc = "start"
    /\ tokens_to_sell = FZero
    /\ steps = 0
    /\ tokens_step = FZero
    /\ step = 0
    /\ price_mult = FZero
    /\ sold_cum = FZero
    /\ usd_cum = FZero
    /\ written = <<>>
    /\ ohlcv = <<>>
    /\ multiplier = [n |-> 0, d |-> 1]
    /\ day_i = 0
    /\ event_id = 0
    /\ averages = <<>>
    /\ returned = <<>>
    /\ events = <<>>
    /\ ticker = <<>>
    /\ IdOff
    /\ MkOff
    /\ InfoOff
    /\ DaysOff
    /\ markets = <<>>
    /\ EngineOff

\* l.642, l.723
step_inc == FDiv(step_pct, Fl(100))

\* l.643, l.724
q_factor == FAdd(Fl(1), FDiv(q_pct, Fl(100)))

\* l.645: math.ceil((final_price / price - 1) / step_inc) + 1
\* l.725: max(1, math.ceil((1 - final_price / price) / step_inc) + 1)
StepCount(f) ==
    IF f = "save_buyback_model"
    THEN FCeil(FDiv(FSub(FDiv(final_price, price), Fl(1)), step_inc)) + 1
    ELSE Max(1, FCeil(FDiv(FSub(Fl(1), FDiv(final_price, price)), step_inc)) + 1)

\* l.645-649, l.725-729 divide by zero
SetupFails(n) ==
    \/ n = 0 /\ q_factor = Fl(1)
    \/ q_factor # Fl(1) /\ PowFails(q_factor, n)
    \/ q_factor # Fl(1) /\ ~PowFails(q_factor, n)
          /\ FSub(Fl(1), FPower(q_factor, n)) = FZero

\* l.646-649, l.726-729: the first term of the geometric series
FirstTerm(n) ==
    IF q_factor = Fl(1)
    THEN FDiv(tokens_to_sell, Fl(n))
    ELSE FDiv(FMul(tokens_to_sell, FSub(Fl(1), q_factor)),
              FSub(Fl(1), FPower(q_factor, n)))

\* A test that lets an empty pool through
NegativeOnly(t) == t.m < 0

\* l.639, l.720: tokens_to_sell <= 0
NothingToSell(t) == FLe(t, FZero)

\* l.621-640, l.702-721: the header, and the return without a schedule
PlanStart ==
    /\ planpc = "start"
    /\ tokens_to_sell' = FMul(supply, ph_percentage)
    /\ written' = <<IF fn = "save_buyback_model"
                   THEN BuybackHeader ELSE LiquidationHeader>>
    /\ planpc' = IF NothingToSell(tokens_to_sell') THEN "returned" ELSE "setup"
    /\ UNCHANGED <<price, ph_percentage, final_price, q_pct, step_pct, steps,
                   tokens_step, step, price_mult, sold_cum, usd_cum>>
    /\ UNCHANGED <<fn, supply, ohlcv, multiplier, day_i, event_id, averages,
                   returned, events>>
    /\ UNCHANGED <<fetchVars, ticker, idVars, mkVars, infoVars, daysVars>>

\* l.642-653, l.723-734
PlanSetup ==
    /\ planpc = "setup"
    /\ IF step_inc = FZero \/ price = FZero
       THEN /\ planpc' = "ZeroDivisionError"
            /\ UNCHANGED <<steps, tokens_step, step, price_mult>>
       ELSE /\ steps' = StepCount(fn)
            /\ IF SetupFails(steps')
               THEN /\ planpc' = "ZeroDivisionError"
                    /\ UNCHANGED <<tokens_step, step, price_mult>>
               ELSE /\ tokens_step' = FirstTerm(steps')
                    /\ step' = 1
                    /\ price_mult' = Fl(1)
                    /\ planpc' = "loop"
    /\ UNCHANGED <<price, ph_percentage, final_price, q_pct, step_pct,
                   tokens_to_sell, sold_cum, usd_cum>>
    /\ UNCHANGED snipVars
    /\ UNCHANGED <<fetchVars, ticker, idVars, mkVars, infoVars, daysVars>>

\* A free float that grows with the tokens sold
Freed(sup, sold) == FAdd(sup, sold)

\* l.661: freefloat = supply - sold_cum
BuybackFreefloat(sup, sold) == FSub(sup, sold)

\* l.742: freefloat = supply + sold_cum
LiquidationFreefloat(sup, sold) == FAdd(sup, sold)

\* l.655-675, l.736-755: the row of one step
StepRow(level, sold, usd, freefloat) ==
    <<step, Round2(price_mult), level, tokens_step, sold,
      FMul(tokens_step, level), usd,
      IF sold # FZero THEN FDiv(usd, sold) ELSE FZero, freefloat, sold>>

\* A test that a level equal to the target does not pass
BeyondTarget(level) == FSub(level, final_price).m > 0

\* l.676: price_level >= final_price
BuybackDone(level) == FGe(level, final_price)

\* l.757: price_level <= final_price
LiquidationDone(level) == FLe(level, final_price)

\* l.654-680: one turn of the while loop of save_buyback_model
BuybackStep ==
    /\ planpc = "loop"
    /\ step <= MaxSteps
    /\ fn = "save_buyback_model"
    /\ LET price_level == FMul(price, price_mult)
       IN  /\ sold_cum' = FAdd(sold_cum, tokens_step)
           /\ usd_cum' = FAdd(usd_cum, FMul(tokens_step, price_level))
           /\ written' = Append(written,
                                StepRow(price_level, sold_cum', usd_cum',
                                        BuybackFreefloat(supply, sold_cum')))
           /\ IF BuybackDone(price_level)
              THEN /\ planpc' = "returned"
                   /\ UNCHANGED <<tokens_step, price_mult, step>>
              ELSE /\ tokens_step' = FMul(tokens_step, q_factor)
                   /\ price_mult' = FAdd(price_mult, step_inc)
                   /\ step' = step + 1
                   /\ planpc' = "loop"
    /\ UNCHANGED <<price, ph_percentage, final_price, q_pct, step_pct,
                   tokens_to_sell, steps>>
    /\ UNCHANGED <<fn, supply, ohlcv, multiplier, day_i, event_id, averages,
                   returned, events>>
    /\ UNCHANGED <<fetchVars, ticker, idVars, mkVars, infoVars, daysVars>>

\* l.735-761: one turn of the while loop of save_liquidation_model
LiquidationStep ==
    /\ planpc = "loop"
    /\ step <= MaxSteps
    /\ fn = "save_liquidation_model"
    /\ LET price_level == FMul(price, price_mult)
       IN  /\ sold_cum' = FAdd(sold_cum, tokens_step)
           /\ usd_cum' = FAdd(usd_cum, FMul(tokens_step, price_level))
           /\ written' = Append(written,
                                StepRow(price_level, sold_cum', usd_cum',
                                        LiquidationFreefloat(supply, sold_cum')))
           /\ IF LiquidationDone(price_level)
              THEN /\ planpc' = "returned"
                   /\ UNCHANGED <<tokens_step, price_mult, step>>
              ELSE /\ tokens_step' = FMul(tokens_step, q_factor)
                   /\ price_mult' = FSub(price_mult, step_inc)
                   /\ step' = step + 1
                   /\ planpc' = "loop"
    /\ UNCHANGED <<price, ph_percentage, final_price, q_pct, step_pct,
                   tokens_to_sell, steps>>
    /\ UNCHANGED <<fn, supply, ohlcv, multiplier, day_i, event_id, averages,
                   returned, events>>
    /\ UNCHANGED <<fetchVars, ticker, idVars, mkVars, infoVars, daysVars>>

NextPlan ==
    \/ PlanStart
    \/ PlanSetup
    \/ BuybackStep
    \/ LiquidationStep

SpecPlan == InitPlan /\ [][NextPlan]_vars

----------------------------------------------------------------------------
(* _coingecko_days, l.57-66: the days parameter of the aggregator request *)

\* The largest window asked for
MaxWindow == 800

\* l.57
COINGECKO_ALLOWED_DAYS == <<1, 7, 14, 30, 90, 180, 365, 730>>

\* A test that skips an accepted value equal to the window
Exceeds(window, allowed) == window < allowed

\* l.64: limit <= day
Suffices(window, allowed) == window <= allowed

\* l.63-66: the for loop from position i on, and the return after it
RECURSIVE DaysFrom(_, _)
DaysFrom(window, i) ==
    IF i > Len(COINGECKO_ALLOWED_DAYS)
    THEN COINGECKO_ALLOWED_DAYS[Len(COINGECKO_ALLOWED_DAYS)]
    ELSE IF Suffices(window, COINGECKO_ALLOWED_DAYS[i])
         THEN COINGECKO_ALLOWED_DAYS[i]
         ELSE DaysFrom(window, i + 1)

\* l.60-66
_coingecko_days(window) == DaysFrom(window, 1)

InitDays ==
    /\ limit \in 1..MaxWindow
    /\ day = 0
    /\ SnipOff
    /\ PlanOff
    /\ ticker = <<>>
    /\ IdOff
    /\ MkOff
    /\ InfoOff
    /\ markets = <<>>
    /\ EngineOff

\* The call _coingecko_days(limit)
CoingeckoDays ==
    /\ day = 0
    /\ day' = _coingecko_days(limit)
    /\ UNCHANGED <<limit, fetchVars, ticker, idVars, mkVars, infoVars, pureVars>>

NextDays == CoingeckoDays

SpecDays == InitDays /\ [][NextDays]_vars

----------------------------------------------------------------------------
(* fetch_ohlcv: properties *)

Terminal == {"returned", "raised"}

Attempted == Range(exchanges_to_try)

\* C1: fetch_ohlcv raises to its caller only when no venue produced data and
\* the aggregator failed or returned nothing; no error of a single venue
\* reaches the caller.
C1_RaisesOnlyOnExhaustion ==
    pc = "raised" =>
        /\ DOMAIN results = {}
        /\ agg \in {"http_error", "unreachable", "empty"}
        /\ raised \notin {"VenueError", "AttributeError"}

\* The series is made of candles of the trades: every candle sits on the day
\* of one of the trades and closes at the price of a trade of that day.
BuiltFrom(series, trades) ==
    /\ series # <<>>
    /\ \A i \in 1..Len(series) :
          \E j \in 1..Len(trades) :
             /\ series[i][1] = BucketTs(trades[j], MS_IN_DAY)
             /\ series[i][5] = trades[j].price

\* C2: when both native requests of a catalog (venue, pair) raised and the
\* venue's trade feed returned trades, the call returns a series built from
\* those trades under the venue's key, and failures does not hold the venue.
C2_TradeFallbackReturned ==
    \A v \in DOMAIN fed :
        pc \in Terminal =>
            /\ pc = "returned"
            /\ v \in DOMAIN ret.results
            /\ BuiltFrom(ret.results[v], fed[v])
            /\ v \notin Range(ret.failures)

\* C3: whenever a venue yielded data the call returns (results, failures):
\* every key is an attempted venue with a non-empty series, failures is the
\* attempted venues that are not keys, in order, and the series of the venues
\* that yielded data are all returned.
C3_PartialSuccess ==
    (pc \in Terminal /\ DOMAIN results # {}) =>
        /\ pc = "returned"
        /\ DOMAIN ret.results \subseteq Attempted
        /\ \A k \in DOMAIN ret.results : ret.results[k] # <<>>
        /\ ret.failures =
              SelectSeq(exchanges_to_try, LAMBDA ex : ex \notin DOMAIN ret.results)
        /\ Range(ret.failures) \cap DOMAIN ret.results = {}
        /\ \A k \in DOMAIN results : /\ k \in DOMAIN ret.results
                                     /\ ret.results[k] = results[k]

\* C4: the aggregator is queried, and "coingecko" is a key of the result,
\* exactly when no attempted venue yielded data; then it is the only key,
\* every attempted venue is in failures and every candle has volume 0; an
\* empty answer or an HTTP error of the aggregator makes the call raise.
C4_AggregatorOnlyOnExhaustion ==
    pc \in Terminal =>
        /\ (agg # None) <=> (DOMAIN results = {})
        /\ agg \in {"empty", "http_error"} => pc = "raised"
        /\ pc = "returned" =>
              /\ ("coingecko" \in DOMAIN ret.results) <=> (DOMAIN results = {})
              /\ "coingecko" \in DOMAIN ret.results =>
                    /\ DOMAIN ret.results = {"coingecko"}
                    /\ ret.failures = exchanges_to_try
                    /\ ret.results["coingecko"] # <<>>
                    /\ \A i \in 1..Len(ret.results["coingecko"]) :
                          ret.results["coingecko"][i][6] = 0

\* C5: every returned series has at most DAYS_LIMIT candles, and it is the
\* last DAYS_LIMIT of the rows its strategy accumulated, in their order.
C5_WindowCut ==
    pc = "returned" =>
        \A k \in DOMAIN ret.results :
            LET series == ret.results[k]
                raw == prov[k].raw
                skip == Len(raw) - Len(series)
            IN  /\ Len(series) <= DAYS_LIMIT
                /\ Len(series) = IF Len(raw) > DAYS_LIMIT THEN DAYS_LIMIT ELSE Len(raw)
                /\ \A i \in 1..Len(series) :
                      SubSeq(series[i], 1, 5) = SubSeq(raw[skip + i], 1, 5)

\* A series was returned whose trade reconstruction had accumulated more than
\* DAYS_LIMIT candles.
C5_Witness ==
    /\ pc = "returned"
    /\ \E k \in DOMAIN ret.results :
          /\ prov[k].strategy = "trades"
          /\ Len(prov[k].raw) > DAYS_LIMIT

\* C6: every returned series is strictly ascending by timestamp, whatever
\* batches the venue served.
C6_StrictlyAscending ==
    pc = "returned" =>
        \A k \in DOMAIN ret.results :
            \A i \in 1..(Len(ret.results[k]) - 1) :
                ret.results[k][i][1] < ret.results[k][i + 1][1]

\* An iteration of the trade loop that goes on has moved the cursor at least
\* one day towards now_ms or added a candle.
TradeLoopProgress ==
    (pc = "trades" /\ pc' = "trades" /\ requests' = requests + 1) =>
        \/ start' >= start + MS_IN_DAY /\ start < now_ms
        \/ Len(all_data') > Len(all_data) /\ Len(all_data) < DAYS_LIMIT

\* A request of either loop is counted, so no iteration goes unseen.
LoopCounted ==
    (pc \in {"paged", "trades"} /\ pc' = pc) => requests' = requests + 1

\* The paginated loop has received fewer than DAYS_LIMIT non-empty batches
\* whenever it asks for another one, each of which added a row.
PagedBounded ==
    pc = "paged" => requests < DAYS_LIMIT /\ Len(all_data) >= requests

\* C7: when every request returns or raises in finite time the call ends;
\* the paginated loop ends within DAYS_LIMIT non-empty batches, and every
\* iteration of the trade loop moves the cursor a day or adds a candle.
C7_Terminates ==
    /\ <>(pc \in Terminal)
    /\ [][TradeLoopProgress /\ LoopCounted]_vars
    /\ [](PagedBounded)

\* The call ended after a trade loop that ran until its rows reached the cap.
C7_Witness ==
    /\ pc \in Terminal
    /\ \E k \in DOMAIN prov : /\ prov[k].strategy = "trades"
                              /\ Len(prov[k].raw) >= DAYS_LIMIT

----------------------------------------------------------------------------
(* _get_coin_id: properties *)

\* Two symbols that differ in case only
SameSymbol(a, b) == Upper(a) = Upper(b)

\* The line is an integer of 1..n
Selects(line, n) == ParseInt(line).ok /\ ParseInt(line).val \in 1..n

\* Where the call stands, given the listing it received
Resolved ==
    (idpc # "idle" /\ listing # <<>>) =>
        LET m == SelectSeq(listing[1], LAMBDA c : SameSymbol(c.symbol, ticker))
            n == Len(m)
        IN  /\ n = 0 => idpc = "raised" /\ out = "ValueError: not found"
            /\ n = 1 => idpc = "done" /\ out = m[1].id /\ asked = 0
            /\ n > 1 =>
                  \/ idpc = "prompt" /\ (asked > 0 => ~Selects(choice, n))
                  \/ /\ idpc = "done"
                     /\ asked > 0
                     /\ Selects(choice, n)
                     /\ out = m[ParseInt(choice).val].id
                  \/ idpc = "raised" /\ out = "EOFError"

\* A line that is no integer of 1..n selects nothing and leads to a new prompt
Reprompted ==
    (idpc = "prompt" /\ asked' = asked + 1 /\ ~Selects(choice', Len(coins))) =>
        idpc' = "prompt" /\ cache' = cache /\ out' = out

\* C8: _get_coin_id fails with not found when no listed coin has the symbol
\* in any case, returns the single match without asking, and with n > 1
\* matches asks until the line is an integer of 1..n and returns the match
\* at that place of the listing; any other line leads to a new prompt.
C8_Resolve == [](Resolved) /\ [][Reprompted]_vars

\* The second of several matches was selected after a line that selected
\* nothing, with another coin listed between the matches.
C8_Witness ==
    /\ idpc = "done"
    /\ asked >= 2
    /\ Len(coins) = 2
    /\ Len(listing[1]) = 3
    /\ out = coins[2].id

\* C9: once _get_coin_id(t) has succeeded, every later call for t, whoever
\* the caller, returns the same id without a network request and without
\* asking for input.
C9_OneCanonicalId ==
    /\ idpc = "done" => out = canon[ticker]
    /\ (idpc # "idle" /\ ticker \in known) =>
          idpc = "done" /\ reqs = 0 /\ asked = 0

\* The aggregator fallback looked up a ticker that an earlier call had
\* resolved at the prompt.
C9_Witness ==
    /\ idpc = "done"
    /\ caller = "fetch_ohlcv"
    /\ ticker \in known
    /\ calls >= 2
    /\ out = "bt-peg"

----------------------------------------------------------------------------
(* _coin_markets: properties *)

\* The text before and after the first "/" of a pair
SlashAt(pair) == CHOOSE i \in 1..Len(pair) : pair[i] = "/" /\ \A j \in 1..(i - 1) : pair[j] # "/"

BaseOf(pair) == SubSeq(pair, 1, SlashAt(pair) - 1)

QuoteOf(pair) == SubSeq(pair, SlashAt(pair) + 1, Len(pair))

\* The upstream entries with the ticker as base and an allowed quote
Kept ==
    SelectSeq(tickers, LAMBDA e : /\ Upper(e.base) = Upper(ticker)
                                  /\ Upper(e.target) \in ALLOWED_QUOTES)

\* Every kept entry is returned, in upstream order, under its normalized venue
KeptInOrder ==
    /\ Len(markets) = Len(Kept)
    /\ \A i \in 1..Len(markets) :
          markets[i][1] = _normalize_exchange_id(Kept[i].identifier)

\* C10 as stated: every returned pair has the upper-cased ticker as base and
\* an allowed quote, every upstream entry with such a base and quote is
\* returned in upstream order with its venue normalized, and no entry with
\* another quote is returned.
C10_BaseIsTicker ==
    mkpc = "returned" =>
        /\ \A i \in 1..Len(markets) :
              /\ BaseOf(markets[i][2]) = Upper(ticker)
              /\ QuoteOf(markets[i][2]) \in ALLOWED_QUOTES
        /\ KeptInOrder

\* The pair of a kept entry: BASE/QUOTE in upper case, XBT spelled BTC on kraken
SpelledPair(venue, e) ==
    LET text == Upper(ticker) \o <<"/">> \o Upper(e.target)
    IN  IF venue = <<"k", "r", "a", "k", "e", "n">> THEN Replace(text, <<"X", "B", "T">>, <<"B", "T", "C">>) ELSE text

\* C10: every returned pair has an allowed quote and the upper-cased ticker
\* as base, except that on kraken XBT is spelled BTC; every upstream entry
\* with that base and such a quote is returned in upstream order with its
\* venue normalized, and no entry with another quote is returned.
C10_Catalog ==
    mkpc = "returned" =>
        /\ KeptInOrder
        /\ \A i \in 1..Len(markets) :
              /\ markets[i][2] = SpelledPair(markets[i][1], Kept[i])
              /\ QuoteOf(markets[i][2]) \in ALLOWED_QUOTES

\* Kraken's XBT entry was returned as BTC/USD while another entry was dropped
C10_Witness ==
    /\ mkpc = "returned"
    /\ Len(tickers) > Len(markets)
    /\ \E i \in 1..Len(markets) :
          markets[i] = <<<<"k", "r", "a", "k", "e", "n">>, <<"B", "T", "C", "/", "U", "S", "D">>>>

\* C11: the market catalog and the coin-info request fail with ValueError,
\* the error callers handle, both on an error status and when the service
\* cannot be reached; a failing catalog makes fetch_ohlcv raise that error
\* before any venue is queried.
C11_UpstreamErrorIsValueError ==
    /\ mkpc = "raised" =>
          /\ raised = "ValueError"
          /\ pc = "raised"
          /\ results = <<>> /\ requests = 0 /\ log = <<>> /\ agg = None
    /\ (info = "raised" /\ info_out # "EOFError") => info_out = "ValueError"

\* The catalog venues the library does not offer or the blacklist names
CatalogUnsupported ==
    {m[1] : m \in {x \in Range(markets) :
                      ~InCcxt(x[1]) \/ x[1] \in EXCHANGE_BLACKLIST}}

\* C12: after every call of fetch_ohlcv the caller can observe an
\* "Unsupported exchanges" diagnostic that names every catalog venue the
\* library does not offer or the blacklist holds, and no diagnostic names a
\* supported venue that is not blacklisted.
C12_UnsupportedReported ==
    pc \in Terminal =>
        /\ CatalogUnsupported # {} =>
              \E i \in 1..Len(Observable) :
                 /\ Observable[i].kind = "unsupported"
                 /\ Range(Observable[i].names) = CatalogUnsupported
        /\ \A i \in 1..Len(Observable) :
              Observable[i].kind = "unsupported" =>
                 Range(Observable[i].names) \subseteq CatalogUnsupported

----------------------------------------------------------------------------
(* save_surge_snippets and save_selloff_snippets: properties *)

\* The rows of the file below the header that are not blank
DataRows == SelectSeq(Tail(written), LAMBDA r : Len(r) > 0)

\* The rows of the event with the id k
Block(k) == SelectSeq(DataRows, LAMBDA r : r[1] = k)

\* The dates of the rows flagged as the event day
FlaggedDates == {DataRows[p][2] : p \in {q \in 1..Len(DataRows) : DataRows[q][8] = 1}}

\* The test of the running function on the candle of day i, without division
Qualifies(i) ==
    LET row == ohlcv[i + 1]
    IN  /\ row[2] > 0
        /\ IF fn = "save_surge_snippets"
           THEN row[3] * multiplier.d >= multiplier.n * row[2]
           ELSE row[4] * multiplier.d <= multiplier.n * row[2]

\* Day i meets the threshold with equality
AtThreshold(i) ==
    LET row == ohlcv[i + 1]
    IN  /\ row[2] > 0
        /\ IF fn = "save_surge_snippets"
           THEN row[3] * multiplier.d = multiplier.n * row[2]
           ELSE row[4] * multiplier.d = multiplier.n * row[2]

\* C13: a day the loop has passed is an event exactly when its open is
\* positive and high/open >= multiplier (surge) or low/open <= multiplier
\* (selloff); the rows flagged as event day are the rows of those days, and
\* a day with open <= 0 is never one of them.
C13_Classified ==
    fn # None =>
        /\ \A i \in 0..(day_i - 1) : (i \in Range(events)) <=> Qualifies(i)
        /\ FlaggedDates = {Date(ohlcv[i + 1][1]) : i \in {j \in 0..(day_i - 1) : Qualifies(j)}}
        /\ \A i \in Range(events) : ohlcv[i + 1][2] > 0

\* A finished run with an event exactly at the threshold and a day of
\* negative open, whose ratio passes the test, left out
C13_Witness ==
    /\ returned # <<>>
    /\ \E i \in Range(events) : AtThreshold(i)
    /\ \E i \in 0..(Len(ohlcv) - 1) :
          /\ ohlcv[i + 1][2] < 0
          /\ fn = "save_surge_snippets" =>
                ohlcv[i + 1][3] * multiplier.d <= multiplier.n * ohlcv[i + 1][2]
          /\ fn = "save_selloff_snippets" =>
                ohlcv[i + 1][4] * multiplier.d >= multiplier.n * ohlcv[i + 1][2]
          /\ i \notin Range(events)
    /\ \E i \in 0..(Len(ohlcv) - 1) : ohlcv[i + 1][2] = 0 /\ i \notin Range(events)

\* The first and one past the last index of the window of day i
Lo(i) == IF i - 2 < 0 THEN 0 ELSE i - 2

Hi(i) == IF i + 3 > Len(ohlcv) THEN Len(ohlcv) ELSE i + 3

\* C14: the rows of every event are the candles at max(0, i-2) ..
\* min(len, i+3)-1 in order: between 1 and 5 rows, 5 when day i has two
\* neighbours on each side, and only the row of day i is flagged.
C14_Window ==
    \A k \in 1..Len(events) :
        LET i == events[k]
            b == Block(k)
        IN  /\ Len(b) = Hi(i) - Lo(i)
            /\ Len(b) >= 1 /\ Len(b) <= 5
            /\ (i >= 2 /\ i + 2 < Len(ohlcv)) => Len(b) = 5
            /\ \A j \in 1..Len(b) :
                  LET row == ohlcv[Lo(i) + j]
                  IN  /\ b[j][2] = Date(row[1])
                      /\ <<b[j][3], b[j][4], b[j][5], b[j][6], b[j][7]>>
                            = <<row[2], row[3], row[4], row[5], row[6]>>
                      /\ b[j][8] = (IF Lo(i) + j - 1 = i THEN 1 ELSE 0)

\* A finished run with a full window of five rows and a window cut at the
\* start of the series
C14_Witness ==
    /\ returned # <<>>
    /\ \E k \in 1..Len(events) : Len(Block(k)) = 5
    /\ \E k \in 1..Len(events) : events[k] = 0 /\ Len(Block(k)) = 3

\* The indices around day i that lie inside the series
Neighbours(i) == {j \in {i - 2, i - 1, i + 1, i + 2} : 0 <= j /\ j < Len(ohlcv)}

RECURSIVE VolSum(_)
VolSum(days) ==
    IF days = {} THEN 0
    ELSE LET j == CHOOSE x \in days : TRUE
         IN  ohlcv[j + 1][6] + VolSum(days \ {j})

\* C15: every row of an event carries ph_volume = the event day's volume
\* minus the mean volume of the neighbours inside the series (0 when there
\* is none) and ph_percentage = ph_volume / supply (the code writes 0 for a
\* supply of 0, where the quotient does not exist).
C15_PhValues ==
    \A k \in 1..Len(events) :
        LET i == events[k]
            b == Block(k)
            c == Cardinality(Neighbours(i))
            v == ohlcv[i + 1][6]
        IN  \A j \in 1..Len(b) :
               LET phv == b[j][9]
                   php == b[j][10]
               IN  /\ phv.d > 0 /\ php.d > 0
                   /\ IF c = 0
                      THEN phv.n = v * phv.d
                      ELSE phv.n * c = (v * c - VolSum(Neighbours(i))) * phv.d
                   /\ IF supply # 0
                      THEN php.n * phv.d * supply = phv.n * php.d
                      ELSE php.n = 0

\* A finished run over a non-zero supply with an event that has four
\* neighbours, one that has fewer, and a mean that is not a whole number
C15_Witness ==
    /\ returned # <<>>
    /\ supply # 0
    /\ \E k \in 1..Len(events) : Cardinality(Neighbours(events[k])) = 4
    /\ \E k \in 1..Len(events) :
          /\ Cardinality(Neighbours(events[k])) = 3
          /\ Block(k)[1][9].d > 1
          /\ Block(k)[1][10].n # 0

\* C16: one event per qualifying day, in series order, with the ids 1, 2,
\* ... ; the rows of an event are consecutive in the file and closed by a
\* blank row, each event with its own whole window; the value returned is
\* the mean of the events' ph_percentage, 0.0 without events.
C16_EventsAndMean ==
    returned # <<>> =>
        /\ \A k \in 1..Len(events) : k > 1 => events[k - 1] < events[k]
        /\ Range(events) = {i \in 0..(Len(ohlcv) - 1) : Qualifies(i)}
        /\ {DataRows[p][1] : p \in 1..Len(DataRows)} = 1..Len(events)
        /\ \A k \in 1..Len(events) :
              /\ Len(Block(k)) = Hi(events[k]) - Lo(events[k])
              /\ \E p \in 1..Len(Block(k)) :
                    /\ Block(k)[p][8] = 1
                    /\ Block(k)[p][2] = Date(ohlcv[events[k] + 1][1])
        /\ \A p \in 2..Len(written) :
              IF written[p] = <<>>
              THEN /\ p > 2 /\ written[p - 1] # <<>>
                   /\ p < Len(written) =>
                         /\ written[p + 1] # <<>>
                         /\ written[p + 1][1] = written[p - 1][1] + 1
              ELSE /\ p < Len(written)
                   /\ written[p + 1] # <<>> => written[p + 1][1] = written[p][1]
                   /\ p = 2 => written[p][1] = 1
        /\ IF events = <<>>
           THEN returned[1] = FromInt(0) /\ Len(written) = 1
           ELSE RMul(returned[1], FromInt(Len(events)))
                   = RSum([k \in 1..Len(events) |-> Block(k)[1][10]])

\* A finished run with two events on adjacent days, whose windows overlap
C16_Witness ==
    /\ returned # <<>>
    /\ supply # 0
    /\ \E k \in 1..Len(events) :
          /\ k > 1
          /\ events[k] = events[k - 1] + 1
          /\ Block(k)[1][10] # Block(k - 1)[1][10]
          /\ Len(Block(k)) + Len(Block(k - 1)) > Len(ohlcv)

----------------------------------------------------------------------------
(* save_buyback_model and save_liquidation_model: properties *)

\* The steps written so far
Schedule == IF written = <<>> THEN <<>> ELSE Tail(written)

\* C17: when supply * ph_percentage <= 0 the function returns with the header
\* alone: no step and no exception, whatever the other arguments are.
C17_EmptySchedule ==
    (planpc \notin {"off", "start"} /\ supply.m * ph_percentage.m <= 0) =>
        /\ planpc = "returned"
        /\ Len(written) = 1
        /\ written[1] = (IF fn = "save_buyback_model"
                         THEN BuybackHeader ELSE LiquidationHeader)

\* A call with a negative average and a price step of 0 that has returned
C17_Witness ==
    /\ planpc = "returned"
    /\ ph_percentage.m < 0
    /\ step_pct = FZero
    /\ Len(written) = 1

\* The target lies on the side of the price that the direction moves to
TargetAhead ==
    IF fn = "save_buyback_model"
    THEN final_price.m > 0 /\ FSub(final_price, price).m >= 0
    ELSE FSub(final_price, price).m <= 0

\* a and b differ by less than 1/64 of b
Near(a, b) ==
    LET diff == FSub(a, b)
    IN  Abs(diff.m) = 0 \/ FSub(FMul(Fl(64), [m |-> Abs(diff.m), e |-> diff.e]),
                                [m |-> Abs(b.m), e |-> b.e]).m < 0

StepsAsDerived == Len(Schedule) = steps

Geometric ==
    \A k \in 1..(Len(Schedule) - 1) :
        /\ Schedule[k + 1][4] = FMul(Schedule[k][4], q_factor)
        /\ q_pct = FZero => Schedule[k + 1][4] = Schedule[k][4]

SumsToPool ==
    Near(Schedule[Len(Schedule)][5], FMul(supply, ph_percentage))

\* C18: with the target ahead of a positive price, a positive price step and
\* a positive pool, the schedule has as many steps as were derived, the
\* tokens_sold form a geometric sequence of ratio q_factor, and the last
\* tokens_sold_cumulative is supply * ph_percentage.
C18_StepsAndPool ==
    (/\ planpc = "returned"
     /\ price.m > 0 /\ step_pct.m > 0 /\ tokens_to_sell.m > 0
     /\ TargetAhead) =>
        /\ StepsAsDerived
        /\ Geometric
        /\ SumsToPool

\* The price level crosses the target in the direction of the function
Crosses(level) ==
    IF fn = "save_buyback_model"
    THEN FSub(level, final_price).m >= 0
    ELSE FSub(level, final_price).m <= 0

\* m1 * 2^e1 < m2 * 2^e2, without rounding
ExactLess(m1, e1, m2, e2) ==
    IF e1 >= e2 THEN m1 * Pow2(e1 - e2) < m2 ELSE m1 < m2 * Pow2(e2 - e1)

\* a - b of two floats, without rounding
DSub(a, b) ==
    LET e == IF a.e <= b.e THEN a.e ELSE b.e
    IN  [m |-> a.m * Pow2(a.e - e) - b.m * Pow2(b.e - e), e |-> e]

\* How far the last price lies beyond the target
Overshoot ==
    LET last == Schedule[Len(Schedule)][3]
    IN  IF fn = "save_buyback_model"
        THEN DSub(last, final_price) ELSE DSub(final_price, last)

\* The overshoot is less than price * step_pct / 100, without rounding
OvershootBelowStep ==
    ExactLess(100 * Overshoot.m, Overshoot.e,
              price.m * step_pct.m, price.e + step_pct.e)

\* The overshoot is less than price * step_pct / 100 plus two units in the
\* last place of the last price
OvershootWithinRounding ==
    LET last == Schedule[Len(Schedule)][3]
        less == DSub(Overshoot, [m |-> 2, e |-> last.e])
    IN  ExactLess(100 * less.m, less.e,
                  price.m * step_pct.m, price.e + step_pct.e)

\* C19 as stated: a schedule starts at the price (multiplier 1.0); its last
\* step is the first whose price crosses final_price; and with the target
\* ahead of the price the last price is less than one price step beyond the
\* target.
C19_Termination ==
    (planpc \in {"loop", "returned"} /\ Len(Schedule) >= 1) =>
        /\ Schedule[1][2] = Fl(1)
        /\ Schedule[1][3] = price
        /\ \A k \in 1..(Len(Schedule) - 1) : ~Crosses(Schedule[k][3])
        /\ planpc = "returned" =>
              /\ Crosses(Schedule[Len(Schedule)][3])
              /\ TargetAhead => OvershootBelowStep

\* C19, amended: a schedule starts at the price (multiplier 1.0); its last
\* step is the first whose price crosses final_price; and with the target
\* ahead of the price the last price is less than one price step, plus two
\* units in the last place of that price, beyond the target.
C19_TerminationRounded ==
    (planpc \in {"loop", "returned"} /\ Len(Schedule) >= 1) =>
        /\ Schedule[1][2] = Fl(1)
        /\ Schedule[1][3] = price
        /\ \A k \in 1..(Len(Schedule) - 1) : ~Crosses(Schedule[k][3])
        /\ planpc = "returned" =>
              /\ Crosses(Schedule[Len(Schedule)][3])
              /\ TargetAhead => OvershootWithinRounding

\* A schedule toward a target ahead whose last price lies a whole price step
\* or more beyond the target
C19_Witness ==
    /\ planpc = "returned"
    /\ TargetAhead
    /\ Len(Schedule) >= 2
    /\ ~OvershootBelowStep

\* C20: every step carries the running state of the chain: the step numbers
\* count from 1; usd_value = tokens_sold * price_usd; the cumulative columns
\* add each step to the step before; weighted_avg_price is their quotient;
\* freefloat is the supply minus (Buyback) or plus (Liquidation) the
\* cumulative tokens; the last column is the cumulative tokens.
C20_Chain ==
    \A k \in 1..Len(Schedule) :
        LET row  == Schedule[k]
            cum0 == IF k = 1 THEN FZero ELSE Schedule[k - 1][5]
            usd0 == IF k = 1 THEN FZero ELSE Schedule[k - 1][7]
        IN  /\ row[1] = k
            /\ row[6] = FMul(row[4], row[3])
            /\ row[5] = FAdd(cum0, row[4])
            /\ row[7] = FAdd(usd0, row[6])
            /\ row[8] = FDiv(row[7], row[5])
            /\ row[9] = (IF fn = "save_buyback_model"
                         THEN FAdd(supply, FNeg(row[5]))
                         ELSE FAdd(supply, row[5]))
            /\ row[10] = row[5]

\* A Buyback and a Liquidation of several steps with a changing sell rate
C20_Witness ==
    /\ planpc = "returned"
    /\ Len(Schedule) >= 3
    /\ q_pct # FZero
    /\ Schedule[3][5] # Schedule[3][4]
    /\ Schedule[3][9] # supply

\* The upstream entries on a dollar quote whose base is not the ticker
Renamed ==
    SelectSeq(tickers, LAMBDA e : /\ Upper(e.base) # Upper(ticker)
                                  /\ Upper(e.target) \in ALLOWED_QUOTES)

\* The pair an upstream entry lists, as the venue spells it
ListedPair(e) ==
    _normalize_pair(_normalize_exchange_id(e.identifier),
                    Upper(e.base) \o <<"/">> \o Upper(e.target))

\* C21: a market the metadata service lists under a base symbol that differs
\* from the requested ticker (ticker "time" listed as TIMECHRONO/USDT) is in
\* the catalog fetch_ohlcv queries, with the listed pair under the normalized
\* venue id, so that the venue answers for that pair and does not fail.
C21_RenamedBaseQueried ==
    mkpc = "returned" =>
        \A i \in 1..Len(Renamed) :
            <<_normalize_exchange_id(Renamed[i].identifier), ListedPair(Renamed[i])>>
                \in Range(markets)

\* The call selects the blacklisted venue lbank and the catalog lists the
\* generic pair AAA/USDT on it
BlacklistedSelected ==
    /\ exchange = "lbank"
    /\ <<"lbank", "AAA/USDT">> \in Range(markets)

\* C22: with the venue filter set to a blacklisted venue (lbank, latoken) on
\* which the catalog lists the pair BASE/USDT, the venue is fetched, not
\* skipped: the call goes to that venue, queries it with the pair once the
\* venue's symbol list holds it, and when the venue serves native OHLC rows
\* for the pair the call returns them under the venue's own key with an
\* empty failures list.
C22_BlacklistedVenueFetched ==
    [][BlacklistedSelected =>
         /\ pc = "prepare" =>
               /\ pc' = "probe_construct"
               /\ exchanges_to_try[ex_i'] = "lbank"
         /\ (pc = "probe_load" /\ "AAA/USDT" \in symbols') =>
               /\ pc' = "construct"
               /\ exchanges_to_try[ex_i'] = "lbank"
               /\ generic_pairs[sym_i'] = "AAA/USDT"
         /\ (pc \in {"paged", "nosince"} /\ symbol = "AAA/USDT" /\ results' # results) =>
               /\ DOMAIN results' = {"lbank"}
               /\ pc' = "returned"
               /\ ret' = [results |-> results', failures |-> <<>>]
               /\ prov'["lbank"].symbol = "AAA/USDT"
               /\ Len(results'["lbank"]) \in 1..DAYS_LIMIT]_vars

\* The blacklisted venue was selected and its paginated rows were returned
C22_Witness ==
    /\ BlacklistedSelected
    /\ pc = "returned"
    /\ DOMAIN ret.results = {"lbank"}
    /\ ret.failures = <<>>
    /\ prov["lbank"].strategy = "paged"
    /\ prov["lbank"].symbol = "AAA/USDT"

\* The aliases the claim names: <<identifier, venue id>>
NamedAliases ==
    { <<<<"m", "x", "c">>, <<"m", "e", "x", "c">>>>,
      <<<<"b", "y", "b", "i", "t", "_", "s", "p", "o", "t">>, <<"b", "y", "b", "i", "t">>>>,
      <<<<"o", "k", "e", "x">>, <<"o", "k", "x">>>>,
      <<<<"c", "r", "y", "p", "t", "o", "_", "c", "o", "m">>, <<"c", "r", "y", "p", "t", "o", "c", "o", "m">>>>,
      <<<<"h", "a", "s", "h", "k", "e", "y", "_", "e", "x", "c", "h", "a", "n", "g", "e">>, <<"h", "a", "s", "h", "k", "e", "y">>>>,
      <<<<"p", "2", "p", "b", "2", "b">>, <<"p", "2", "b">>>>,
      <<<<"h", "u", "o", "b", "i">>, <<"h", "t", "x">>>> }

\* C23: _normalize_exchange_id lower-cases the venue id and maps mxc to mexc,
\* bybit_spot to bybit, okex to okx, crypto_com to cryptocom,
\* hashkey_exchange to hashkey, p2pb2b to p2b and huobi to htx; an id the
\* alias table does not hold is returned lower-cased and otherwise unchanged.
C23_Aliases ==
    /\ \A i \in 1..Len(tickers) :
          LET id  == tickers[i].identifier
              low == Lower(id)
          IN  /\ \A a \in NamedAliases :
                    low = a[1] => _normalize_exchange_id(id) = a[2]
              /\ (\A a \in EXCHANGE_ALIASES : low # a[1]) =>
                    _normalize_exchange_id(id) = low
    /\ mkpc = "returned" =>
          \A i \in 1..Len(Kept) :
              \A a \in NamedAliases :
                  Lower(Kept[i].identifier) = a[1] => markets[i][1] = a[2]

\* The step leaves the strategy at position p of the current (venue, pair)
\* without candles
LeavesEmpty(p) == pc = p /\ pc' # p /\ results' = results

\* C24: for every attempted (venue, pair) the strategies are tried in the
\* order paginated request, request without a start cursor, trade
\* reconstruction: a strategy that ends without candles, by an error or by
\* an empty answer, is followed by the next one; a later strategy starts only
\* from the one before it; a strategy that produced candles ends the pair.
C24_StrategiesInOrder ==
    [][/\ LeavesEmpty("paged") => pc' = "nosince"
       /\ LeavesEmpty("nosince") => pc' = "trades"
       /\ (pc' = "nosince" /\ pc # "nosince") => pc \in {"load_markets", "paged"}
       /\ (pc' = "trades" /\ pc # "trades") => pc = "nosince"
       /\ results' # results => pc' \notin {"nosince", "trades"}]_vars

\* The trades of the list that fall into the daily bucket b, by index
InBucket(trades, b) == {i \in 1..Len(trades) : BucketTs(trades[i], MS_IN_DAY) = b}

RECURSIVE SumAmounts(_, _)
SumAmounts(trades, idx) ==
    IF idx = {} THEN 0
    ELSE LET i == SetMin(idx)
         IN  trades[i].amount + SumAmounts(trades, idx \ {i})

\* The candle of bucket b: first, highest, lowest and last price and the sum
\* of the amounts of the bucket's trades
DayCandle(trades, b) ==
    LET idx    == InBucket(trades, b)
        prices == {trades[i].price : i \in idx}
    IN  <<b, trades[SetMin(idx)].price, SetMax(prices), SetMin(prices),
          trades[SetMax(idx)].price, SumAmounts(trades, idx)>>

RECURSIVE DayCandles(_, _)
DayCandles(trades, days) ==
    IF days = {} THEN <<>>
    ELSE LET b == SetMin(days)
         IN  <<DayCandle(trades, b)>> \o DayCandles(trades, days \ {b})

\* C25: the rows reconstructed from trades are one candle for each daily
\* bucket that holds a fetched trade, in ascending order, with the first,
\* highest, lowest and last price and the sum of the amounts of all fetched
\* trades of that day, however the venue split the trades over its batches.
C25_OneCandlePerDay ==
    \A v \in DOMAIN prov :
        prov[v].strategy = "trades" =>
            prov[v].raw = DayCandles(prov[v].trades,
                                     {BucketTs(t, MS_IN_DAY) : t \in Range(prov[v].trades)})

\* The venues at the indices of the set have a series in res
AllServed(idx, res) == \A k \in idx : exchanges_to_try[k] \in DOMAIN res

\* One step of the walk, as generic probing is to proceed
ProbingStep ==
    /\ \* probing starts when the catalog pairs of every venue have been tried
       (pc' = "probe_construct" /\ phase = 1) =>
          /\ \A k \in (ex_i + 1)..Len(exchanges_to_try) :
                markets_by_exchange(exchanges_to_try[k]) = <<>>
          /\ pc # "prepare" =>
                \/ results' # results
                \/ sym_i = Len(markets_by_exchange(ex_name))
    /\ \* the next venue probed is the first one that has no series
       pc' = "probe_construct" =>
          /\ exchanges_to_try[ex_i'] \notin DOMAIN results'
          /\ AllServed((IF phase = 1 THEN 1 ELSE ex_i + 1)..(ex_i' - 1), results')
    /\ \* the next pair requested is the first later one the venue lists
       (phase' = 2 /\ pc' = "construct" /\ pc \notin {"construct", "probe_construct"}) =>
          /\ ex_i' = ex_i
          /\ results' = results
          /\ generic_pairs[sym_i'] \in symbols'
          /\ \A j \in ((IF pc = "probe_load" THEN 0 ELSE sym_i) + 1)..(sym_i' - 1) :
                generic_pairs[j] \notin symbols'
    /\ \* a pair that yields data ends the venue
       (phase = 2 /\ results' # results) =>
          /\ pc' \in {"probe_construct", "returned"}
          /\ pc' = "probe_construct" => ex_i' > ex_i
    /\ \* a venue whose load_markets raises, or that lists no generic pair, is
       \* left for the next venue
       (pc = "probe_load" /\ pc' # "construct") =>
          /\ pc' \in {"probe_construct", "returned", "aggregator"}
          /\ pc' = "probe_construct" => ex_i' > ex_i
          /\ results' = results
    /\ \* the venues without a series are the failures of the return
       pc' = "returned" =>
          \A k \in 1..Len(exchanges_to_try) :
              exchanges_to_try[k] \notin DOMAIN results' =>
                  exchanges_to_try[k] \in Range(ret'.failures)

\* C26: generic probing starts after every attempted venue was tried with its
\* catalog pairs; it probes the venues that have no series, requests
\* BASE/USDT, BASE/USD, BASE/USDC in that order and only when the venue lists
\* the pair, and leaves a venue at the first pair that yields data; a venue
\* whose load_markets raises is skipped and is in failures; and without a
\* venue filter and without a supported catalog venue every venue of the
\* client library is eventually probed.
C26_GenericProbing ==
    /\ [][ProbingStep]_vars
    /\ \A k \in 1..Len(CcxtExchanges) :
          (exchange = None /\ supported_markets = <<>>) =>
              <>(pc = "probe_load" /\ ex_i = k)

----------------------------------------------------------------------------
(* _coingecko_days: properties *)

\* The values the aggregator accepts
Accepted == {1, 7, 14, 30, 90, 180, 365, 730}

\* C27: for a window d >= 1 the value returned is an accepted value: the
\* smallest accepted value >= d when there is one (364 gives 365, 90 gives
\* 90), the largest accepted value 730 otherwise; and no smaller window
\* gets a larger value.
C27_SnappedUp ==
    day # 0 =>
        /\ day \in Accepted
        /\ IF \E a \in Accepted : a >= limit
           THEN /\ day >= limit
                /\ \A a \in Accepted : a >= limit => day <= a
           ELSE day = 730
        /\ limit = 364 => day = 365
        /\ limit = 90 => day = 90
        /\ \A d \in 1..limit : _coingecko_days(d) <= day

\* The function returned for a window between two accepted values, for an
\* accepted value, and for a window above the largest one
C27_Witness ==
    \/ limit = 364 /\ day = 365
    \/ limit = 90 /\ day = 90
    \/ limit > 730 /\ day = 730

\* C28: in both directions, for a price > 0, a price step > 0, a pool > 0
\* and every target price, above or below the price, the derived step count
\* is at least 1, the first term of the series is computed without a
\* division by zero, and every tokens_sold is positive when q_factor > 0.
C28_StepCountPositive ==
    (/\ planpc \notin {"off", "start", "setup"}
     /\ price.m > 0 /\ step_pct.m > 0 /\ tokens_to_sell.m > 0) =>
        /\ planpc # "ZeroDivisionError"
        /\ steps >= 1
        /\ q_factor.m > 0 =>
              /\ tokens_step.m > 0
              /\ \A k \in 1..Len(Schedule) : Schedule[k][4].m > 0

\* price_level of the loop, l.655 and l.736
Level == FMul(price, price_mult)

\* The turn of the loop moved the price level towards the target
Moved ==
    IF fn = "save_buyback_model"
    THEN FSub(Level', Level).m > 0
    ELSE FSub(Level', Level).m < 0

\* C29: for a price > 0, a price step > 0 and a pool > 0 the generation of
\* the schedule ends, in both directions and for every target price and
\* every q_pct: every turn of the loop that does not end it moves the price
\* level on, up for Buyback and down for Liquidation, so that the level
\* reaches the target; and a schedule that is returned has at least one step.
C29_Terminates ==
    [][/\ (planpc = "loop" /\ planpc' = "loop" /\ step_pct.m > 0) => Moved
       /\ (planpc = "loop" /\ planpc' = "returned") => Len(written') >= 2]_vars

====
